---- MODULE Spec2Model ----
(***************************************************************************)
(* Surcharge resolution and totals aggregation of the skalkaho quote       *)
(* builder (internal/domain/surcharge.go) and the handlers' conversion     *)
(* from repository rows to domain values (internal/handler/*/handler.go).  *)
(*                                                                         *)
(* Conventions of the model                                                *)
(*  - A Go pointer (to float64, to string) is a sequence: Nil == <<>> is   *)
(*    the nil pointer, <<v>> points to v. sql.NullFloat64 / sql.NullString *)
(*    are records [Valid, Float64] / [Valid, String] as in database/sql.   *)
(*  - Identifiers (Go strings) are naturals; the zero value "" is 0.       *)
(*  - float64 amounts are exact integers.  Percentages are whole percents; *)
(*    unit prices are in cents and whole currency units (multiples of      *)
(*    100), so that x * (1 + s/100) is an integer number of cents and the  *)
(*    model computes it without loss.  Rounding error of IEEE arithmetic   *)
(*    is outside the model.                                                *)
(***************************************************************************)
EXTENDS Integers, Sequences, FiniteSets, TLC

\* ------------------------------------------------------------------ bounds
MaxChain == 3        \* longest category chain handed to the resolver directly
MaxCats == 3         \* most categories of a job
MaxItems == 2        \* most line items of a job
MaxStored == 4       \* most rows of table categories while requests write it

\* --------------------------------------------------------- program values
SurchargeModeStacking == "stacking"
SurchargeModeOverride == "override"

LineItemTypeMaterial == "material"
LineItemTypeLabor == "labor"
LineItemTypeEquipment == "equipment"

Nil == <<>>

\* ------------------------------------------------------------------ state
VARIABLES
    job,          \* the job: [ID, SurchargePercent, SurchargeMode]
    li,           \* resolver call: the line item argument (domain.LineItem)
    chain,        \* resolver call: the categoryChain argument, root first
    categories,   \* handler call: the job's rows of table categories
    lineItems,    \* handler call: the job's rows of table line_items
    call,         \* the function that returned last ("" before any call)
    ret,          \* what it returned
    frame,        \* the local variables of an engine call in progress
    priceImports  \* tables price_imports, price_import_matches, item_templates

vars == <<job, li, chain, categories, lineItems, call, ret, frame, priceImports>>

\* ------------------------------------------------------------ the resolver

\* LineItem.BasePrice
BasePrice(item) == item.Quantity * item.UnitPrice

\* the loop of effectiveSurchargeOverride, i running from len-1 down to 0
\* (here from Len down to 1); falls back to the job's percentage
RECURSIVE overrideWalk(_, _, _)
overrideWalk(j, categoryChain, i) ==
    IF i < 1 THEN j.SurchargePercent
    ELSE IF categoryChain[i].SurchargePercent # Nil
         THEN categoryChain[i].SurchargePercent[1]
         ELSE overrideWalk(j, categoryChain, i - 1)

\* a variant that walks from the shallowest category down
RECURSIVE overrideWalkDown(_, _, _)
overrideWalkDown(j, categoryChain, i) ==
    IF i > Len(categoryChain) THEN j.SurchargePercent
    ELSE IF categoryChain[i].SurchargePercent # Nil
         THEN categoryChain[i].SurchargePercent[1]
         ELSE overrideWalkDown(j, categoryChain, i + 1)

effectiveSurchargeOverrideShallowest(item, j, categoryChain) ==
    IF item.SurchargePercent # Nil
    THEN item.SurchargePercent[1]
    ELSE overrideWalkDown(j, categoryChain, 1)

effectiveSurchargeOverride(item, j, categoryChain) ==
    IF item.SurchargePercent # Nil
    THEN item.SurchargePercent[1]
    ELSE overrideWalk(j, categoryChain, Len(categoryChain))

\* the range loop of effectiveSurchargeStacking, from the first category on
RECURSIVE stackingWalk(_, _, _)
stackingWalk(total, categoryChain, i) ==
    IF i > Len(categoryChain) THEN total
    ELSE stackingWalk(
            IF categoryChain[i].SurchargePercent # Nil
            THEN total + categoryChain[i].SurchargePercent[1]
            ELSE total,
            categoryChain, i + 1)

\* a variant that stops summing at the first category without a percentage
RECURSIVE stackingWalkUntilAbsent(_, _, _)
stackingWalkUntilAbsent(total, categoryChain, i) ==
    IF i > Len(categoryChain) THEN total
    ELSE IF categoryChain[i].SurchargePercent = Nil THEN total
    ELSE stackingWalkUntilAbsent(total + categoryChain[i].SurchargePercent[1],
                                 categoryChain, i + 1)

effectiveSurchargeStackingUntilAbsent(item, j, categoryChain) ==
    LET total == stackingWalkUntilAbsent(j.SurchargePercent, categoryChain, 1)
    IN  IF item.SurchargePercent # Nil
        THEN total + item.SurchargePercent[1]
        ELSE total

effectiveSurchargeStacking(item, j, categoryChain) ==
    LET total == stackingWalk(j.SurchargePercent, categoryChain, 1)
    IN  IF item.SurchargePercent # Nil
        THEN total + item.SurchargePercent[1]
        ELSE total

\* a variant that takes every mode but stacking for override
EffectiveSurchargeUnlessStacking(item, j, categoryChain) ==
    IF j.SurchargeMode # SurchargeModeStacking
    THEN effectiveSurchargeOverride(item, j, categoryChain)
    ELSE effectiveSurchargeStacking(item, j, categoryChain)

EffectiveSurcharge(item, j, categoryChain) ==
    IF j.SurchargeMode = SurchargeModeOverride
    THEN effectiveSurchargeOverride(item, j, categoryChain)
    ELSE effectiveSurchargeStacking(item, j, categoryChain)

\* a variant that rounds the result to whole currency units
FinalPriceRounded(item, effectiveSurcharge) ==
    ((BasePrice(item) * (100 + effectiveSurcharge)) \div 10000) * 100

\* base * (1 + effectiveSurcharge/100), in cents
FinalPrice(item, effectiveSurcharge) ==
    (BasePrice(item) * (100 + effectiveSurcharge)) \div 100

\* ---------------------------------------------------------- the aggregator

\* a Go map lookup that yields a pointer: Nil when the key is missing
lookup(byID, id) == IF id \in DOMAIN byID THEN <<byID[id]>> ELSE Nil

\* for _, cat := range categories { categoryByID[cat.ID] = cat }
\* (a later element with the same ID replaces an earlier one)
makeCategoryByID(cats) ==
    [id \in {cats[k].ID : k \in DOMAIN cats} |->
        cats[CHOOSE k \in DOMAIN cats :
                /\ cats[k].ID = id
                /\ \A m \in DOMAIN cats : m > k => cats[m].ID # id]]

\* the loop of buildCategoryChain: prepend current, stop at a nil parent or
\* at an identifier the map does not hold
RECURSIVE chainWalk(_, _, _)
chainWalk(current, acc, categoryByID) ==
    IF current = Nil THEN acc
    ELSE LET next == <<current[1]>> \o acc
         IN  IF current[1].ParentID = Nil THEN next
             ELSE chainWalk(lookup(categoryByID, current[1].ParentID[1]),
                            next, categoryByID)

\* a variant that does not walk up: the chain is the category alone
buildCategoryChainOwnOnly(categoryID, categoryByID) ==
    IF categoryID \in DOMAIN categoryByID THEN <<categoryByID[categoryID]>> ELSE <<>>

buildCategoryChain(categoryID, categoryByID) ==
    chainWalk(lookup(categoryByID, categoryID), <<>>, categoryByID)

\* a variant that keeps only the first child of a category
RECURSIVE childrenOfFirstOnly(_, _, _)
childrenOfFirstOnly(id, cats, k) ==
    IF k > Len(cats) THEN <<>>
    ELSE IF cats[k].ParentID # Nil /\ cats[k].ParentID[1] = id
         THEN <<cats[k].ID>>
         ELSE childrenOfFirstOnly(id, cats, k + 1)

\* childrenOf[id] of findDescendantCategories: the IDs of the categories whose
\* parent is id, in list order
RECURSIVE childrenOf(_, _, _)
childrenOf(id, cats, k) ==
    IF k > Len(cats) THEN <<>>
    ELSE (IF cats[k].ParentID # Nil /\ cats[k].ParentID[1] = id
          THEN <<cats[k].ID>> ELSE <<>>) \o childrenOf(id, cats, k + 1)

\* a variant that does not enqueue the children of a visited category
RECURSIVE descendantWalkOneLevel(_, _, _)
descendantWalkOneLevel(queue, result, cats) ==
    IF queue = <<>> THEN result
    ELSE descendantWalkOneLevel(Tail(queue), result \cup {Head(queue)}, cats)

\* the breadth-first loop of findDescendantCategories
RECURSIVE descendantWalk(_, _, _)
descendantWalk(queue, result, cats) ==
    IF queue = <<>> THEN result
    ELSE descendantWalk(Tail(queue) \o childrenOf(Head(queue), cats, 1),
                        result \cup {Head(queue)}, cats)

\* a variant that finds the descendants in one pass over the list: a category
\* counts when its parent was found before it
RECURSIVE descendantScan(_, _, _, _)
descendantScan(parentID, cats, k, result) ==
    IF k > Len(cats) THEN result
    ELSE descendantScan(parentID, cats, k + 1,
            IF /\ cats[k].ParentID # Nil
               /\ cats[k].ParentID[1] \in result \cup {parentID}
            THEN result \cup {cats[k].ID} ELSE result)

findDescendantCategoriesOnePass(parentID, cats) ==
    descendantScan(parentID, cats, 1, {})

\* the set of keys the returned map holds (each with value true)
findDescendantCategories(parentID, cats) ==
    descendantWalk(childrenOf(parentID, cats, 1), {}, cats)

\* a variant in which result outlives the call (a package-level variable):
\* the next call goes on from what the last one returned
JobTotalLeftOver ==
    IF call = "CalculateJobTotal" THEN ret.totals
    ELSE [Subtotal |-> 0, SurchargeTotal |-> 0, GrandTotal |-> 0,
          MaterialSubtotal |-> 0, LaborSubtotal |-> 0, EquipmentSubtotal |-> 0]

\* var result JobTotal
ZeroJobTotal ==
    [Subtotal |-> 0, SurchargeTotal |-> 0, GrandTotal |-> 0,
     MaterialSubtotal |-> 0, LaborSubtotal |-> 0, EquipmentSubtotal |-> 0]

\* categoryChains[li.CategoryID], built on a miss
chainFor(item, categoryChains, categoryByID) ==
    IF item.CategoryID \in DOMAIN categoryChains
    THEN categoryChains[item.CategoryID]
    ELSE buildCategoryChain(item.CategoryID, categoryByID)

\* categoryChains[li.CategoryID] = chain, on a miss only
chainsWith(item, categoryChains, itemChain) ==
    IF item.CategoryID \in DOMAIN categoryChains
    THEN categoryChains
    ELSE (item.CategoryID :> itemChain) @@ categoryChains

\* a variant whose switch lacks the equipment case
trackByTypeNoEquipment(result, item, finalPrice) ==
    IF item.Type = LineItemTypeMaterial
    THEN [result EXCEPT !.MaterialSubtotal = @ + finalPrice]
    ELSE IF item.Type = LineItemTypeLabor
    THEN [result EXCEPT !.LaborSubtotal = @ + finalPrice]
    ELSE result

\* the switch on li.Type of CalculateJobTotal (it has no default case)
trackByType(result, item, finalPrice) ==
    IF item.Type = LineItemTypeMaterial
    THEN [result EXCEPT !.MaterialSubtotal = @ + finalPrice]
    ELSE IF item.Type = LineItemTypeLabor
    THEN [result EXCEPT !.LaborSubtotal = @ + finalPrice]
    ELSE IF item.Type = LineItemTypeEquipment
    THEN [result EXCEPT !.EquipmentSubtotal = @ + finalPrice]
    ELSE result

\* a variant that leaves out a line item whose category is not in the list
jobTotalStepKnownOnly(result, item, j, itemChain) ==
    IF itemChain = <<>> THEN result
    ELSE LET finalPrice == FinalPrice(item, EffectiveSurcharge(item, j, itemChain))
         IN  trackByType([result EXCEPT !.Subtotal = @ + BasePrice(item),
                                        !.GrandTotal = @ + finalPrice],
                         item, finalPrice)

\* one iteration of the loop over lineItems in CalculateJobTotal
jobTotalStep(result, item, j, itemChain) ==
    LET basePrice == BasePrice(item)
        effSurcharge == EffectiveSurcharge(item, j, itemChain)
        finalPrice == FinalPrice(item, effSurcharge)
    IN  trackByType([result EXCEPT !.Subtotal = @ + basePrice,
                                   !.GrandTotal = @ + finalPrice],
                    item, finalPrice)

RECURSIVE jobTotalLoop(_, _, _, _, _, _)
jobTotalLoop(i, result, categoryChains, j, categoryByID, items) ==
    IF i > Len(items) THEN result
    ELSE LET itemChain == chainFor(items[i], categoryChains, categoryByID)
         IN  jobTotalLoop(i + 1,
                          jobTotalStep(result, items[i], j, itemChain),
                          chainsWith(items[i], categoryChains, itemChain),
                          j, categoryByID, items)

\* a variant that returns before SurchargeTotal is set
CalculateJobTotalNoDifference(j, cats, items) ==
    jobTotalLoop(1, ZeroJobTotal, <<>>, j, makeCategoryByID(cats), items)

CalculateJobTotal(j, cats, items) ==
    LET result == jobTotalLoop(1, ZeroJobTotal, <<>>, j,
                               makeCategoryByID(cats), items)
    IN  [result EXCEPT !.SurchargeTotal = result.GrandTotal - result.Subtotal]

\* one iteration of the loop over lineItems in CalculateCategoryTotal
categoryTotalStep(result, item, j, itemChain) ==
    LET basePrice == BasePrice(item)
        effSurcharge == EffectiveSurcharge(item, j, itemChain)
        finalPrice == FinalPrice(item, effSurcharge)
    IN  [result EXCEPT !.Subtotal = @ + basePrice, !.Total = @ + finalPrice]

RECURSIVE categoryTotalLoop(_, _, _, _, _, _, _)
categoryTotalLoop(i, result, categoryChains, descendantIDs, j, categoryByID, items) ==
    IF i > Len(items) THEN result
    ELSE IF items[i].CategoryID \notin descendantIDs
    THEN categoryTotalLoop(i + 1, result, categoryChains, descendantIDs,
                           j, categoryByID, items)
    ELSE LET itemChain == chainFor(items[i], categoryChains, categoryByID)
         IN  categoryTotalLoop(i + 1,
                               categoryTotalStep(result, items[i], j, itemChain),
                               chainsWith(items[i], categoryChains, itemChain),
                               descendantIDs, j, categoryByID, items)

\* a variant that leaves the target category out of the set it sums
CalculateCategoryTotalWithoutSelf(categoryID, j, cats, items) ==
    LET descendantIDs == findDescendantCategories(categoryID, cats)
        result == categoryTotalLoop(
                      1,
                      [CategoryID |-> categoryID, Subtotal |-> 0,
                       SurchargeTotal |-> 0, Total |-> 0],
                      <<>>, descendantIDs, j, makeCategoryByID(cats), items)
    IN  [result EXCEPT !.SurchargeTotal = result.Total - result.Subtotal]

\* a variant that does not set result.CategoryID
CalculateCategoryTotalNoID(categoryID, j, cats, items) ==
    LET descendantIDs == findDescendantCategories(categoryID, cats) \cup {categoryID}
        result == categoryTotalLoop(
                      1,
                      [CategoryID |-> 0, Subtotal |-> 0,
                       SurchargeTotal |-> 0, Total |-> 0],
                      <<>>, descendantIDs, j, makeCategoryByID(cats), items)
    IN  [result EXCEPT !.SurchargeTotal = result.Total - result.Subtotal]

CalculateCategoryTotal(categoryID, j, cats, items) ==
    LET descendantIDs == findDescendantCategories(categoryID, cats) \cup {categoryID}
        result == categoryTotalLoop(
                      1,
                      [CategoryID |-> categoryID, Subtotal |-> 0,
                       SurchargeTotal |-> 0, Total |-> 0],
                      <<>>, descendantIDs, j, makeCategoryByID(cats), items)
    IN  [result EXCEPT !.SurchargeTotal = result.Total - result.Subtotal]

\* ------------------------------------- the handlers' conversion to domain

\* Handler.calculateTotals, the loop over categories: a NULL column becomes a
\* nil pointer, any stored value (0 included) a pointer to it.  The pointers
\* are taken of the loop variable's fields; the module builds with per-
\* iteration loop variables (its routes need Go 1.22), so they do not alias.
toDomainCategory(cat) ==
    [ID |-> cat.ID, JobID |-> cat.JobID,
     ParentID |-> IF cat.ParentID.Valid THEN <<cat.ParentID.String>> ELSE Nil,
     SurchargePercent |-> IF cat.SurchargePercent.Valid
                          THEN <<cat.SurchargePercent.Float64>> ELSE Nil]

\* a variant that takes a stored 0 for "no value"
toDomainLineItemZeroAsNull(item) ==
    [ID |-> item.ID, CategoryID |-> item.CategoryID, Type |-> item.Type,
     Quantity |-> item.Quantity, UnitPrice |-> item.UnitPrice,
     SurchargePercent |-> IF item.SurchargePercent.Float64 # 0
                          THEN <<item.SurchargePercent.Float64>> ELSE Nil]

\* Handler.calculateTotals, the loop over lineItems
toDomainLineItem(item) ==
    [ID |-> item.ID, CategoryID |-> item.CategoryID, Type |-> item.Type,
     Quantity |-> item.Quantity, UnitPrice |-> item.UnitPrice,
     SurchargePercent |-> IF item.SurchargePercent.Valid
                          THEN <<item.SurchargePercent.Float64>> ELSE Nil]

toDomainJob(j) ==
    [ID |-> j.ID, SurchargePercent |-> j.SurchargePercent,
     SurchargeMode |-> j.SurchargeMode]

toDomainCategories(cats) == [k \in DOMAIN cats |-> toDomainCategory(cats[k])]

toDomainLineItems(items) == [k \in DOMAIN items |-> toDomainLineItem(items[k])]

\* Handler.calculateTotals
calculateTotals(j, cats, items) ==
    CalculateJobTotal(toDomainJob(j), toDomainCategories(cats),
                      toDomainLineItems(items))

\* Handler.calculateCategoryTotal
calculateCategoryTotal(categoryID, j, cats, items) ==
    CalculateCategoryTotal(categoryID, toDomainJob(j), toDomainCategories(cats),
                           toDomainLineItems(items))

\* ------------------------------------------------------------- the inputs

Modes == {SurchargeModeStacking, SurchargeModeOverride}
Types == {LineItemTypeMaterial, LineItemTypeLabor, LineItemTypeEquipment}

JobPercents == {0, 10}
CategoryPercents == {0, 3, 5}
ItemPercents == {0, 2}
Quantities == {0, 1, 2}
UnitPrices == {0, 100, 300}     \* cents
Surcharges == {0, 5, 15}        \* the surcharge argument of a FinalPrice call

Opt(S) == {Nil} \cup {<<v>> : v \in S}

Jobs == [ID : {1}, SurchargePercent : JobPercents, SurchargeMode : Modes]

\* a chain as a caller hands it to EffectiveSurcharge, root first: the k-th
\* category is the parent of the next one
ChainOf(percents) ==
    [k \in DOMAIN percents |->
        [ID |-> k, JobID |-> 1,
         ParentID |-> IF k = 1 THEN Nil ELSE <<k - 1>>,
         SurchargePercent |-> percents[k]]]

Chains ==
    UNION {{ChainOf(p) : p \in [1..n -> Opt(CategoryPercents)]} : n \in 0..MaxChain}

DomainLineItems ==
    [ID : {1}, CategoryID : {1}, Type : {LineItemTypeMaterial},
     Quantity : Quantities, UnitPrice : UnitPrices,
     SurchargePercent : Opt(ItemPercents)]

NoLineItem ==
    [ID |-> 0, CategoryID |-> 0, Type |-> "", Quantity |-> 0, UnitPrice |-> 0,
     SurchargePercent |-> Nil]

NoResult == [none |-> TRUE]

\* no engine call is in progress
NoFrame == [pc |-> "idle"]

\* the three tables, empty
NoPriceImports == [price_imports |-> <<>>, price_import_matches |-> <<>>,
                   item_templates |-> <<>>]

\* sql.NullFloat64 and sql.NullString as the driver fills them: a NULL column
\* leaves the zero value beside Valid = false
Null == [Float64 |-> 0, Valid |-> FALSE]
Stored(v) == [Float64 |-> v, Valid |-> TRUE]
NullFloat64s(S) == {Null} \cup {Stored(v) : v \in S}
NullString(id) == [String |-> id, Valid |-> id # 0]

\* the stored jobs of the page specifications: a job whose own percentage is
\* not 0, in either mode
StoredJobs == [ID : {1}, SurchargePercent : {10}, SurchargeMode : Modes]

\* the parent columns of n categories with identifiers 1..n, 0 for NULL: a
\* parent is created before its child, and the numbering is breadth first
\* (non-decreasing parents), which reaches every forest shape once
ParentColumns(n) ==
    {p \in [1..n -> 0..n] :
        /\ \A k \in 1..n : p[k] < k
        /\ \A k \in 1..n : \A m \in 1..n : k < m => p[k] <= p[m]}

RECURSIVE Pow2(_)
Pow2(k) == IF k = 0 THEN 1 ELSE 2 * Pow2(k - 1)

\* every forest of at most MaxCats categories; category k stores its own
\* percentage 2^(k-1), so that a sum of percentages tells which categories
\* went into it; at most one category of the forest inherits (NULL)
CategoryForests ==
    UNION {{[k \in 1..n |->
                [ID |-> k, JobID |-> 1, ParentID |-> NullString(p[k]),
                 SurchargePercent |-> IF k = inherits THEN Null ELSE Stored(Pow2(k - 1))]] :
            p \in ParentColumns(n), inherits \in 0..n} :
           n \in 0..MaxCats}

\* the line item rows placed in those forests: the k-th row is of the k-th
\* type (in turn), k units at 1.00, no percentage of its own
TypeAt(k) ==
    IF k % 3 = 1 THEN LineItemTypeMaterial
    ELSE IF k % 3 = 2 THEN LineItemTypeLabor
    ELSE LineItemTypeEquipment

PlacedLineItems(n) ==
    UNION {{[k \in 1..m |->
                [ID |-> k, CategoryID |-> c[k], Type |-> TypeAt(k),
                 Quantity |-> k, UnitPrice |-> 100, SurchargePercent |-> Null]] :
            c \in [1..m -> 1..n]} :
           m \in 0..MaxItems}

\* every forest of at most MaxCats categories in which each category stores
\* its own percentage 2^(k-1)
StoringForests ==
    UNION {{[k \in 1..n |->
                [ID |-> k, JobID |-> 1, ParentID |-> NullString(p[k]),
                 SurchargePercent |-> Stored(Pow2(k - 1))]] :
            p \in ParentColumns(n)} :
           n \in 0..MaxCats}

\* line item rows as PlacedLineItems, one arrangement for each choice of
\* categories: the k-th row is in a category not before the one of the row
\* ahead of it (the other arrangements are permutations of these)
SortedLineItems(n) ==
    {items \in PlacedLineItems(n) :
        \A k \in DOMAIN items : \A m \in DOMAIN items :
            k < m => items[k].CategoryID <= items[m].CategoryID}

\* the deepest nesting the handlers accept
MaxDepth == 3

\* a single branch of categories, 1 the root and d the leaf, with every
\* combination of NULL, 0 and 5 in the percentage column
CategoryBranches ==
    UNION {{[k \in 1..d |->
                [ID |-> k, JobID |-> 1, ParentID |-> NullString(k - 1),
                 SurchargePercent |-> s[k]]] :
            s \in [1..d -> NullFloat64s({0, 5})]} :
           d \in 1..MaxDepth}

\* line item rows of every type in the leaf d of a branch, with NULL or 0 in
\* the percentage column; the unit price depends on the type
PriceOf(type) ==
    IF type = LineItemTypeMaterial THEN 100
    ELSE IF type = LineItemTypeLabor THEN 200 ELSE 400

LeafLineItems(d) ==
    UNION {{[k \in 1..m |->
                [ID |-> k, CategoryID |-> d, Type |-> t[k],
                 Quantity |-> 1, UnitPrice |-> PriceOf(t[k]),
                 SurchargePercent |-> s[k]]] :
            t \in [1..m -> Types], s \in [1..m -> NullFloat64s({0})]} :
           m \in 0..MaxItems}

\* --------------------------------------------- direct calls of the resolver

InitResolver ==
    /\ job \in Jobs
    /\ chain \in Chains
    /\ li \in DomainLineItems
    /\ categories = <<>>
    /\ lineItems = <<>>
    /\ call = ""
    /\ ret = NoResult
    /\ frame = NoFrame
    /\ priceImports = NoPriceImports

CallEffectiveSurcharge ==
    /\ call' = "EffectiveSurcharge"
    /\ ret' = [percent |-> EffectiveSurcharge(li, job, chain)]
    /\ UNCHANGED <<job, li, chain, categories, lineItems, frame, priceImports>>

CallFinalPrice ==
    \E s \in Surcharges :
        /\ call' = "FinalPrice"
        /\ ret' = [effectiveSurcharge |-> s, price |-> FinalPrice(li, s)]
        /\ UNCHANGED <<job, li, chain, categories, lineItems, frame, priceImports>>

NextResolver == CallEffectiveSurcharge \/ CallFinalPrice

SpecResolver == InitResolver /\ [][NextResolver]_vars

\* ------------------------------------------------- the pages of a job

topLevelCategories(cats) == SelectSeq(cats, LAMBDA cat : ~cat.ParentID.Valid)

subcategories(cats, categoryID) ==
    SelectSeq(cats, LAMBDA cat : cat.ParentID.Valid /\ cat.ParentID.String = categoryID)

\* The rows ListCategoriesByJob and ListLineItemsByJob return (the latter
\* joins line_items to the job's categories): every forest shape, the line
\* items placed anywhere in it
Init ==
    /\ job \in StoredJobs
    /\ categories \in CategoryForests
    /\ lineItems \in PlacedLineItems(Len(categories))
    /\ li = NoLineItem
    /\ chain = <<>>
    /\ call = ""
    /\ ret = NoResult
    /\ frame = NoFrame
    /\ priceImports = NoPriceImports

\* one branch, every stored percentage and every type of line item
InitValues ==
    /\ job \in StoredJobs
    /\ categories \in CategoryBranches
    /\ lineItems \in LeafLineItems(Len(categories))
    /\ li = NoLineItem
    /\ chain = <<>>
    /\ call = ""
    /\ ret = NoResult
    /\ frame = NoFrame
    /\ priceImports = NoPriceImports

\* Handler.GetJob: a total per top-level category, then the job's totals.
\* ret keeps each catTotal whole (the page shows its Total).
GetJob ==
    LET top == topLevelCategories(categories)
    IN  /\ call' = "GetJob"
        /\ ret' = [categoriesWithTotals |->
                       [k \in DOMAIN top |->
                           calculateCategoryTotal(top[k].ID, job, categories, lineItems)],
                   totals |-> calculateTotals(job, categories, lineItems)]
        /\ UNCHANGED <<job, li, chain, categories, lineItems, frame, priceImports>>

\* Handler.GetCategory, for a category of the job: the category's total, then
\* one per direct subcategory.  ret keeps each subTotal whole.
GetCategory ==
    \E k \in DOMAIN categories :
        LET categoryID == categories[k].ID
            subs == subcategories(categories, categoryID)
        IN  /\ call' = "GetCategory"
            /\ ret' = [categoryID |-> categoryID,
                       catTotal |-> calculateCategoryTotal(categoryID, job,
                                                           categories, lineItems),
                       subcatsWithTotals |->
                           [m \in DOMAIN subs |->
                               calculateCategoryTotal(subs[m].ID, job,
                                                      categories, lineItems)]]
            /\ UNCHANGED <<job, li, chain, categories, lineItems, frame, priceImports>>

Next == GetJob \/ GetCategory

Spec == Init /\ [][Next]_vars

SpecValues == InitValues /\ [][Next]_vars

\* ------------------------------------------- direct calls of the aggregator

\* the arguments a caller builds from the rows, as calculateTotals does
InitEngine ==
    /\ job \in StoredJobs
    /\ categories \in StoringForests
    /\ lineItems \in SortedLineItems(Len(categories))
    /\ li = NoLineItem
    /\ chain = <<>>
    /\ call = ""
    /\ ret = NoResult
    /\ frame = NoFrame
    /\ priceImports = NoPriceImports

\* CalculateJobTotal(job, categories, lineItems).  ret.again tells that the
\* call before this one was the same call (it is no variable of the program).
CallCalculateJobTotal ==
    /\ call' = "CalculateJobTotal"
    /\ ret' = [categoryID |-> 0,
               totals |-> CalculateJobTotal(toDomainJob(job),
                                            toDomainCategories(categories),
                                            toDomainLineItems(lineItems)),
               again |-> (call = "CalculateJobTotal")]
    /\ UNCHANGED <<job, li, chain, categories, lineItems, frame, priceImports>>

\* CalculateCategoryTotal(categoryID, job, categories, lineItems), for a
\* category of the list or an identifier the list does not hold
CallCalculateCategoryTotal ==
    \E categoryID \in 1..(Len(categories) + 1) :
        /\ call' = "CalculateCategoryTotal"
        /\ ret' = [categoryID |-> categoryID,
                   totals |-> CalculateCategoryTotal(categoryID, toDomainJob(job),
                                                     toDomainCategories(categories),
                                                     toDomainLineItems(lineItems)),
                   again |-> (call = "CalculateCategoryTotal"
                                /\ ret.categoryID = categoryID)]
        /\ UNCHANGED <<job, li, chain, categories, lineItems, frame, priceImports>>

NextEngine == CallCalculateJobTotal \/ CallCalculateCategoryTotal

SpecEngine == InitEngine /\ [][NextEngine]_vars

\* ------------------------------------- the requests that write categories

\* the rows of table jobs while categories are written
StoredJobIDs == {1, 2}

\* the identifiers of the rows of a table
idsOf(rows) == {rows[k].ID : k \in DOMAIN rows}

\* SELECT * FROM ... WHERE id = ?: the row, or Nil for sql.ErrNoRows
sqlGet(rows, id) ==
    IF id \in idsOf(rows)
    THEN <<rows[CHOOSE k \in DOMAIN rows : rows[k].ID = id]>>
    ELSE Nil

\* Identifiers are opaque (UUIDs).  The model lists a table in the order its
\* rows were created and names each row by its place in that list: the k-th
\* row has the identifier k, in its own ID and wherever a parent_id or a
\* category_id refers to it.

\* uuid.New(): an identifier that no stored row has
uuidNew(rows) == Len(rows) + 1

\* a table with one more row
withRow(rows, row) == Append(rows, row)

\* the name of a row that stays once the rows in gone are deleted
placeAfter(id, gone) == id - Cardinality({g \in gone : g < id})

\* INSERT INTO categories: the primary key is new, job_id references a job,
\* parent_id is NULL or references a category (the connection is opened with
\* _foreign_keys=on)
sqlCreateCategory(rows, arg) ==
    IF \/ arg.ID \in idsOf(rows)
       \/ arg.JobID \notin StoredJobIDs
       \/ /\ arg.ParentID.Valid
          /\ arg.ParentID.String \notin idsOf(rows) \cup {arg.ID}
    THEN [rows |-> rows, err |-> TRUE]
    ELSE [rows |-> withRow(rows, arg), err |-> FALSE]

\* UPDATE categories SET name, surcharge_percent, sort_order WHERE id = ?
sqlUpdateCategory(rows, id, surchargePercent) ==
    [k \in DOMAIN rows |->
        IF rows[k].ID = id
        THEN [rows[k] EXCEPT !.SurchargePercent = surchargePercent]
        ELSE rows[k]]

\* the rows ON DELETE CASCADE removes with the rows in gone
RECURSIVE cascade(_, _)
cascade(rows, gone) ==
    LET more == {rows[k].ID : k \in {m \in DOMAIN rows :
                     rows[m].ParentID.Valid /\ rows[m].ParentID.String \in gone}}
    IN  IF more \subseteq gone THEN gone ELSE cascade(rows, gone \cup more)

\* DELETE FROM categories WHERE id = ?: the rows that stay
sqlDeleteCategory(rows, id) ==
    LET gone == cascade(rows, {id}) \cap idsOf(rows)
        kept == SelectSeq(rows, LAMBDA row : row.ID \notin gone)
    IN  [k \in DOMAIN kept |->
            [kept[k] EXCEPT
                !.ID = k,
                !.ParentID = IF kept[k].ParentID.Valid
                             THEN NullString(placeAfter(kept[k].ParentID.String, gone))
                             ELSE kept[k].ParentID]]

\* the line items that stay with them (line_items.category_id ON DELETE
\* CASCADE)
sqlDeleteLineItemsOf(items, rows, id) ==
    LET gone == cascade(rows, {id}) \cap idsOf(rows)
        kept == SelectSeq(items, LAMBDA item : item.CategoryID \notin gone)
    IN  [k \in DOMAIN kept |->
            [kept[k] EXCEPT !.ID = k,
                            !.CategoryID = placeAfter(kept[k].CategoryID, gone)]]

\* ListCategoriesByJob
sqlListCategoriesByJob(rows, jobID) ==
    SelectSeq(rows, LAMBDA row : row.JobID = jobID)

\* categoryByID[id] of the keyboard handler's getCategoryDepth: the zero
\* repository.Category (ParentID not Valid) for a missing key
zeroCategory ==
    [ID |-> 0, JobID |-> 0, ParentID |-> NullString(0), SurchargePercent |-> Null]

rowOrZero(rows, id) == IF sqlGet(rows, id) = Nil THEN zeroCategory ELSE sqlGet(rows, id)[1]

\* keyboard Handler.getCategoryDepth: 1 for a top-level category
RECURSIVE keyboardDepthWalk(_, _, _)
keyboardDepthWalk(current, depth, rows) ==
    IF current.ParentID.Valid
    THEN keyboardDepthWalk(rowOrZero(rows, current.ParentID.String), depth + 1, rows)
    ELSE depth

keyboardGetCategoryDepth(rows, categoryID) ==
    keyboardDepthWalk(rowOrZero(rows, categoryID), 1, rows)

\* quote Handler.getCategoryDepth: walks the table itself, for as long as
\* depth <= maxCategoryDepth; 0 with an error when a row is missing
RECURSIVE quoteDepthWalk(_, _, _)
quoteDepthWalk(currentID, depth, rows) ==
    IF depth > MaxDepth THEN [depth |-> depth, err |-> FALSE]
    ELSE LET cat == sqlGet(rows, currentID)
         IN  IF cat = Nil THEN [depth |-> 0, err |-> TRUE]
             ELSE IF ~cat[1].ParentID.Valid THEN [depth |-> depth, err |-> FALSE]
             ELSE quoteDepthWalk(cat[1].ParentID.String, depth + 1, rows)

quoteGetCategoryDepth(rows, categoryID) == quoteDepthWalk(categoryID, 1, rows)

\* a variant that passes the new identifier where the parent's belongs
newCategoryOwnParent(rows, jobID, parentID) ==
    [ID |-> uuidNew(rows), JobID |-> jobID,
     ParentID |-> IF parentID.Valid THEN NullString(uuidNew(rows)) ELSE parentID,
     SurchargePercent |-> Null]

\* CreateCategoryParams of every create handler: no percentage
newCategory(rows, jobID, parentID) ==
    [ID |-> uuidNew(rows), JobID |-> jobID, ParentID |-> parentID,
     SurchargePercent |-> Null]

\* what a request to a category handler leaves behind: the table.  The
\* response (status) goes to the client and is no state of the program.
Responded(handler, status, rows) ==
    /\ categories' = rows
    /\ UNCHANGED <<job, li, chain, lineItems, call, ret, frame, priceImports>>

\* the same for a request that deletes a category and what is below it
Deleted(handler, categoryID) ==
    /\ categories' = sqlDeleteCategory(categories, categoryID)
    /\ lineItems' = sqlDeleteLineItemsOf(lineItems, categories, categoryID)
    /\ UNCHANGED <<job, li, chain, call, ret, frame, priceImports>>

\* the job and category identifiers a request can name: the stored ones and
\* one that no row has or will have (a request cannot name the identifier
\* uuid.New() is going to return)
RequestJobIDs == StoredJobIDs \cup {3}
RequestCategoryIDs == idsOf(categories) \cup {MaxStored + 1}

InitStore ==
    /\ job \in {j \in StoredJobs : j.SurchargeMode = SurchargeModeStacking}
    /\ categories = <<>>
    /\ lineItems = <<>>
    /\ li = NoLineItem
    /\ chain = <<>>
    /\ call = ""
    /\ ret = NoResult
    /\ frame = NoFrame
    /\ priceImports = NoPriceImports

\* quote Handler.CreateCategory (POST /jobs/{jobID}/categories with the form
\* value parent_id, 0 for the empty string): no check of depth or of the
\* parent's job
QuoteCreateCategory ==
    \E jobID \in RequestJobIDs : \E pid \in {0} \cup RequestCategoryIDs :
        /\ Len(categories) < MaxStored
        /\ LET created == sqlCreateCategory(categories,
                              newCategory(categories, jobID, NullString(pid)))
           IN  Responded("quote.CreateCategory",
                         IF created.err THEN 500 ELSE 303, created.rows)

\* keyboard Handler.CreateCategory: a top-level category
KeyboardCreateCategory ==
    \E jobID \in RequestJobIDs :
        /\ Len(categories) < MaxStored
        /\ LET created == sqlCreateCategory(categories,
                              newCategory(categories, jobID, NullString(0)))
           IN  Responded("keyboard.CreateCategory",
                         IF created.err THEN 500 ELSE 303, created.rows)

\* keyboard Handler.CreateSubcategory: the depth of the parent is counted in
\* the categories of the parent's job
KeyboardCreateSubcategory ==
    \E parentID \in RequestCategoryIDs :
        /\ Len(categories) < MaxStored
        /\ LET parent == sqlGet(categories, parentID)
           IN  IF parent = Nil
               THEN Responded("keyboard.CreateSubcategory", 404, categories)
               ELSE IF keyboardGetCategoryDepth(
                          sqlListCategoriesByJob(categories, parent[1].JobID),
                          parentID) >= 3
               THEN Responded("keyboard.CreateSubcategory", 400, categories)
               ELSE LET created == sqlCreateCategory(categories,
                                       newCategory(categories, parent[1].JobID,
                                                   NullString(parentID)))
                    IN  Responded("keyboard.CreateSubcategory",
                                  IF created.err THEN 500 ELSE 303, created.rows)

\* quote Handler.CreateSubcategory
QuoteCreateSubcategory ==
    \E parentID \in RequestCategoryIDs :
        /\ Len(categories) < MaxStored
        /\ LET parent == sqlGet(categories, parentID)
               parentDepth == quoteGetCategoryDepth(categories, parentID)
           IN  IF parent = Nil
               THEN Responded("quote.CreateSubcategory", 404, categories)
               ELSE IF parentDepth.err
               THEN Responded("quote.CreateSubcategory", 500, categories)
               ELSE IF parentDepth.depth >= MaxDepth
               THEN Responded("quote.CreateSubcategory", 400, categories)
               ELSE LET created == sqlCreateCategory(categories,
                                       newCategory(categories, parent[1].JobID,
                                                   NullString(parentID)))
                    IN  Responded("quote.CreateSubcategory",
                                  IF created.err THEN 500 ELSE 303, created.rows)

\* quote Handler.UpdateCategory with the form value surcharge_percent (Null
\* for the empty string): name, percentage and sort order are written, the
\* parent and the job stay
QuoteUpdateCategory ==
    \E categoryID \in RequestCategoryIDs : \E surchargePercent \in NullFloat64s({5}) :
        IF sqlGet(categories, categoryID) = Nil
        THEN Responded("quote.UpdateCategory", 404, categories)
        ELSE Responded("quote.UpdateCategory", 303,
                       sqlUpdateCategory(categories, categoryID, surchargePercent))

\* keyboard Handler.DeleteCategory
KeyboardDeleteCategory ==
    \E categoryID \in RequestCategoryIDs :
        IF sqlGet(categories, categoryID) = Nil
        THEN Responded("keyboard.DeleteCategory", 404, categories)
        ELSE Deleted("keyboard.DeleteCategory", categoryID)

\* quote Handler.DeleteCategory: deletes without looking the row up
QuoteDeleteCategory ==
    \E categoryID \in RequestCategoryIDs :
        Deleted("quote.DeleteCategory", categoryID)

NextStore ==
    \/ QuoteCreateCategory
    \/ KeyboardCreateCategory
    \/ KeyboardCreateSubcategory
    \/ QuoteCreateSubcategory
    \/ QuoteUpdateCategory
    \/ KeyboardDeleteCategory
    \/ QuoteDeleteCategory

SpecStore == InitStore /\ [][NextStore]_vars

\* ------------------------------------- the requests that write line items

\* a form value that a handler parses as a number: the empty string (also a
\* missing field), a text that is no number, or a number
EmptyText == [empty |-> TRUE, number |-> FALSE, val |-> 0]
NotANumber == [empty |-> FALSE, number |-> FALSE, val |-> 0]
NumberText(n) == [empty |-> FALSE, number |-> TRUE, val |-> n]

\* strconv.ParseFloat: 0 beside the error for a text that is no number
parseFloat(text) ==
    [val |-> IF text.number THEN text.val ELSE 0, err |-> ~text.number]

\* the forms of a line item request: quantity, unit_price (cents), type and,
\* for an update, surcharge_percent (has: the form holds the field at all)
QuantityTexts == {EmptyText, NotANumber, NumberText(-1), NumberText(0), NumberText(2)}
UnitPriceTexts == {EmptyText, NumberText(-100), NumberText(300)}
TypeTexts == {"", LineItemTypeLabor, LineItemTypeEquipment}
SurchargeFields ==
    {[has |-> FALSE, text |-> EmptyText], [has |-> TRUE, text |-> EmptyText],
     [has |-> TRUE, text |-> NumberText(5)]}

LineItemForms ==
    [quantity : QuantityTexts, unit_price : UnitPriceTexts, type : TypeTexts,
     surcharge_percent : SurchargeFields]

\* type TEXT NOT NULL CHECK (type IN ('material', 'labor'))
sqlCheckLineItem(arg) == arg.Type \in {LineItemTypeMaterial, LineItemTypeLabor}

\* INSERT INTO line_items: category_id references a category
sqlCreateLineItem(rows, arg, cats) ==
    IF arg.CategoryID \notin idsOf(cats) \/ ~sqlCheckLineItem(arg)
    THEN [rows |-> rows, err |-> TRUE]
    ELSE [rows |-> withRow(rows, arg), err |-> FALSE]

\* UPDATE line_items SET type, name, description, quantity, unit, unit_price,
\* surcharge_percent, sort_order WHERE id = ?
sqlUpdateLineItem(rows, arg) ==
    IF ~sqlCheckLineItem(arg)
    THEN [rows |-> rows, err |-> TRUE]
    ELSE [rows |-> [k \in DOMAIN rows |->
                       IF rows[k].ID = arg.ID
                       THEN [arg EXCEPT !.CategoryID = rows[k].CategoryID]
                       ELSE rows[k]],
          err |-> FALSE]

\* DELETE FROM line_items WHERE id = ?: the rows that stay
sqlDeleteLineItem(rows, id) ==
    LET kept == SelectSeq(rows, LAMBDA row : row.ID # id)
    IN  [k \in DOMAIN kept |-> [kept[k] EXCEPT !.ID = k]]

\* CreateLineItemParams of quote Handler.CreateLineItem: what the form parses
\* to, errors ignored
quoteNewLineItem(rows, categoryID, form) ==
    [ID |-> uuidNew(rows), CategoryID |-> categoryID, Type |-> form.type,
     Quantity |-> parseFloat(form.quantity).val,
     UnitPrice |-> parseFloat(form.unit_price).val,
     SurchargePercent |-> Null]

\* CreateLineItemParams of keyboard Handler.CreateLineItem: a quantity <= 0
\* becomes 1, an empty type material
keyboardNewLineItem(rows, categoryID, form) ==
    [ID |-> uuidNew(rows), CategoryID |-> categoryID,
     Type |-> IF form.type = "" THEN LineItemTypeMaterial ELSE form.type,
     Quantity |-> IF parseFloat(form.quantity).val <= 0
                  THEN 1 ELSE parseFloat(form.quantity).val,
     UnitPrice |-> parseFloat(form.unit_price).val,
     SurchargePercent |-> Null]

\* UpdateLineItemParams of quote Handler.UpdateLineItem: a field the form
\* leaves empty, or that does not parse, keeps the stored value
quoteUpdatedLineItem(existingItem, form) ==
    [ID |-> existingItem.ID, CategoryID |-> existingItem.CategoryID,
     Type |-> IF form.type = "" THEN existingItem.Type ELSE form.type,
     Quantity |-> IF ~form.quantity.empty /\ ~parseFloat(form.quantity).err
                  THEN parseFloat(form.quantity).val ELSE existingItem.Quantity,
     UnitPrice |-> IF ~form.unit_price.empty /\ ~parseFloat(form.unit_price).err
                   THEN parseFloat(form.unit_price).val ELSE existingItem.UnitPrice,
     SurchargePercent |->
         IF ~form.surcharge_percent.text.empty
         THEN IF ~parseFloat(form.surcharge_percent.text).err
              THEN Stored(parseFloat(form.surcharge_percent.text).val)
              ELSE existingItem.SurchargePercent
         ELSE IF form.surcharge_percent.has THEN Null
         ELSE existingItem.SurchargePercent]

\* what a request to a line item handler leaves behind: the table
RespondedItems(handler, status, rows) ==
    /\ lineItems' = rows
    /\ UNCHANGED <<job, li, chain, categories, call, ret, frame, priceImports>>

\* the line item identifiers a request can name
RequestLineItemIDs == idsOf(lineItems) \cup {MaxItems + 1}

\* one top-level category of job 1, no line item yet
InitItems ==
    /\ job \in {j \in StoredJobs : j.SurchargeMode = SurchargeModeStacking}
    /\ categories = <<[ID |-> 1, JobID |-> 1, ParentID |-> NullString(0),
                       SurchargePercent |-> Null]>>
    /\ lineItems = <<>>
    /\ li = NoLineItem
    /\ chain = <<>>
    /\ call = ""
    /\ ret = NoResult
    /\ frame = NoFrame
    /\ priceImports = NoPriceImports

\* quote Handler.CreateLineItem
QuoteCreateLineItem ==
    \E categoryID \in RequestCategoryIDs : \E form \in LineItemForms :
        /\ Len(lineItems) < MaxItems
        /\ LET created == sqlCreateLineItem(lineItems,
                              quoteNewLineItem(lineItems, categoryID, form),
                              categories)
           IN  RespondedItems("quote.CreateLineItem",
                              IF created.err THEN 500 ELSE 303, created.rows)

\* keyboard Handler.CreateLineItem
KeyboardCreateLineItem ==
    \E categoryID \in RequestCategoryIDs : \E form \in LineItemForms :
        /\ Len(lineItems) < MaxItems
        /\ LET created == sqlCreateLineItem(lineItems,
                              keyboardNewLineItem(lineItems, categoryID, form),
                              categories)
           IN  RespondedItems("keyboard.CreateLineItem",
                              IF created.err THEN 500 ELSE 303, created.rows)

\* quote Handler.UpdateLineItem
QuoteUpdateLineItem ==
    \E itemID \in RequestLineItemIDs : \E form \in LineItemForms :
        LET existingItem == sqlGet(lineItems, itemID)
        IN  IF existingItem = Nil
            THEN RespondedItems("quote.UpdateLineItem", 404, lineItems)
            ELSE LET updated == sqlUpdateLineItem(lineItems,
                                    quoteUpdatedLineItem(existingItem[1], form))
                 IN  RespondedItems("quote.UpdateLineItem",
                                    IF updated.err THEN 500 ELSE 303, updated.rows)

\* quote and keyboard Handler.DeleteLineItem
DeleteLineItem ==
    \E itemID \in RequestLineItemIDs :
        RespondedItems("DeleteLineItem", 303, sqlDeleteLineItem(lineItems, itemID))

NextItems ==
    \/ QuoteCreateLineItem
    \/ KeyboardCreateLineItem
    \/ QuoteUpdateLineItem
    \/ DeleteLineItem

SpecItems == InitItems /\ [][NextItems]_vars

\* ------------------------------------ a call of the aggregator, by steps

\* the longest chain a walk of buildCategoryChain is followed to: a walk that
\* prepended more categories than the list holds has met one of them twice
\* and goes round for ever
MaxWalk == MaxCats + 2

\* the frame of a call: pc is where it stands ("descendants": the loop of
\* findDescendantCategories, "range": the head of the loop over lineItems,
\* "chain": the loop of buildCategoryChain, "done": returned)
Frame(pc, categoryID, queue, descendantIDs, i, result, categoryChains) ==
    [pc |-> pc, categoryID |-> categoryID, queue |-> queue,
     descendantIDs |-> descendantIDs, i |-> i, result |-> result,
     categoryChains |-> categoryChains, current |-> Nil, chain |-> <<>>,
     exists |-> FALSE]

\* var result CategoryTotal; result.CategoryID = categoryID
ZeroCategoryTotal(categoryID) ==
    [CategoryID |-> categoryID, Subtotal |-> 0, SurchargeTotal |-> 0, Total |-> 0]

\* what the running call was given
givenJob == toDomainJob(job)
givenCategories == toDomainCategories(categories)
givenLineItems == toDomainLineItems(lineItems)

\* the totals of the loop body, for the function that runs
priced(result, item, itemChain) ==
    IF call = "CalculateJobTotal"
    THEN jobTotalStep(result, item, givenJob, itemChain)
    ELSE categoryTotalStep(result, item, givenJob, itemChain)

\* the rest of the loop body once chain is known: the chain goes into the
\* cache on a miss, the prices go into result, the loop goes to the next item
bodyWith(f, itemChain, exists) ==
    [f EXCEPT !.pc = "range", !.i = @ + 1,
              !.result = priced(@, givenLineItems[f.i], itemChain),
              !.categoryChains = chainsWith(givenLineItems[f.i], @, itemChain),
              !.current = Nil, !.chain = itemChain, !.exists = exists]

\* one iteration of the loop of findDescendantCategories; with an empty queue
\* it returns, and the caller adds the target category itself
descendantsStep(f) ==
    IF f.queue = <<>>
    THEN [f EXCEPT !.pc = "range",
                   !.descendantIDs = @ \cup {f.categoryID}]
    ELSE [f EXCEPT !.queue = Tail(@) \o childrenOf(Head(@), givenCategories, 1),
                   !.descendantIDs = @ \cup {Head(f.queue)}]

\* the head of the loop over lineItems, for an item there is: skip it, take
\* its chain from the cache, or call buildCategoryChain
rangeStep(f) ==
    LET item == givenLineItems[f.i]
    IN  IF call = "CalculateCategoryTotal" /\ item.CategoryID \notin f.descendantIDs
        THEN [f EXCEPT !.i = @ + 1, !.chain = <<>>, !.exists = FALSE]
        ELSE IF item.CategoryID \in DOMAIN f.categoryChains
        THEN bodyWith(f, f.categoryChains[item.CategoryID], TRUE)
        ELSE [f EXCEPT !.pc = "chain",
                       !.current = lookup(makeCategoryByID(givenCategories),
                                          item.CategoryID),
                       !.chain = <<>>]

\* a variant that stops the walk at a category the chain holds already
chainStepOnce(f) ==
    IF f.current = Nil \/ \E k \in DOMAIN f.chain : f.chain[k] = f.current[1]
    THEN bodyWith(f, f.chain, FALSE)
    ELSE LET next == <<f.current[1]>> \o f.chain
         IN  IF f.current[1].ParentID = Nil
             THEN bodyWith(f, next, FALSE)
             ELSE [f EXCEPT !.chain = next,
                            !.current = lookup(makeCategoryByID(givenCategories),
                                               f.current[1].ParentID[1])]

\* a variant that appends the parent behind the child
chainStepAppending(f) ==
    IF f.current = Nil
    THEN bodyWith(f, f.chain, FALSE)
    ELSE LET next == f.chain \o <<f.current[1]>>
         IN  IF f.current[1].ParentID = Nil
             THEN bodyWith(f, next, FALSE)
             ELSE [f EXCEPT !.chain = next,
                            !.current = lookup(makeCategoryByID(givenCategories),
                                               f.current[1].ParentID[1])]

\* a variant that does not leave the loop at a category without parent
chainStepNoBreak(f) ==
    IF f.current = Nil
    THEN bodyWith(f, f.chain, FALSE)
    ELSE LET next == <<f.current[1]>> \o f.chain
         IN  IF f.current[1].ParentID = Nil
             THEN [f EXCEPT !.chain = next]
             ELSE [f EXCEPT !.chain = next,
                            !.current = lookup(makeCategoryByID(givenCategories),
                                               f.current[1].ParentID[1])]

\* one iteration of the loop of buildCategoryChain; at a nil current or a nil
\* parent it returns and the loop body of the caller goes on
chainStep(f) ==
    IF f.current = Nil
    THEN bodyWith(f, f.chain, FALSE)
    ELSE LET next == <<f.current[1]>> \o f.chain
         IN  IF f.current[1].ParentID = Nil
             THEN bodyWith(f, next, FALSE)
             ELSE [f EXCEPT !.chain = next,
                            !.current = lookup(makeCategoryByID(givenCategories),
                                               f.current[1].ParentID[1])]

\* result.SurchargeTotal = ... ; return result
returned(f) ==
    IF call = "CalculateJobTotal"
    THEN [f.result EXCEPT !.SurchargeTotal = f.result.GrandTotal - f.result.Subtotal]
    ELSE [f.result EXCEPT !.SurchargeTotal = f.result.Total - f.result.Subtotal]

\* the forests of StoringForests, and each of them with one parent pointer set
\* to any identifier: to the category itself, to one below it, to one that is
\* not in the list
LinkedCategories ==
    StoringForests \cup
    UNION {{[forest EXCEPT ![k].ParentID = NullString(parentID)] :
                k \in DOMAIN forest, parentID \in 1..(Len(forest) + 1)} :
           forest \in StoringForests}

InitSteps ==
    /\ job \in {j \in StoredJobs : j.SurchargeMode = SurchargeModeStacking}
    /\ categories \in LinkedCategories
    /\ lineItems \in SortedLineItems(Len(categories))
    /\ li = NoLineItem
    /\ chain = <<>>
    /\ call = ""
    /\ ret = NoResult
    /\ frame = NoFrame
    /\ priceImports = NoPriceImports

\* CalculateJobTotal is called: up to the loop over lineItems
EnterCalculateJobTotal ==
    /\ frame.pc = "idle"
    /\ call' = "CalculateJobTotal"
    /\ frame' = Frame("range", 0, <<>>, {}, 1, ZeroJobTotal, <<>>)
    /\ UNCHANGED <<job, li, chain, categories, lineItems, ret, priceImports>>

\* CalculateCategoryTotal is called: up to the loop of findDescendantCategories
EnterCalculateCategoryTotal ==
    \E categoryID \in 1..(Len(categories) + 1) :
        /\ frame.pc = "idle"
        /\ call' = "CalculateCategoryTotal"
        /\ frame' = Frame("descendants", categoryID,
                          childrenOf(categoryID, givenCategories, 1), {}, 1,
                          ZeroCategoryTotal(categoryID), <<>>)
        /\ UNCHANGED <<job, li, chain, categories, lineItems, ret, priceImports>>

\* for len(queue) > 0 { ... }
StepDescendants ==
    /\ frame.pc = "descendants"
    /\ frame' = descendantsStep(frame)
    /\ UNCHANGED <<job, li, chain, categories, lineItems, call, ret, priceImports>>

\* for _, li := range lineItems { ... }: li and chain are the item a step
\* priced and the chain it was priced with
StepRange ==
    /\ frame.pc = "range"
    /\ frame.i <= Len(lineItems)
    /\ frame' = rangeStep(frame)
    /\ IF frame'.pc = "range" /\ frame'.exists
       THEN li' = givenLineItems[frame.i] /\ chain' = frame'.chain
       ELSE UNCHANGED <<li, chain>>
    /\ UNCHANGED <<job, categories, lineItems, call, ret, priceImports>>

\* for current != nil { ... }
StepChain ==
    /\ frame.pc = "chain"
    /\ Len(frame.chain) < MaxWalk
    /\ frame' = chainStep(frame)
    /\ IF frame'.pc = "range"
       THEN li' = givenLineItems[frame.i] /\ chain' = frame'.chain
       ELSE UNCHANGED <<li, chain>>
    /\ UNCHANGED <<job, categories, lineItems, call, ret, priceImports>>

\* the loop over lineItems is through: the call returns
StepReturn ==
    /\ frame.pc = "range"
    /\ frame.i > Len(lineItems)
    /\ frame' = [frame EXCEPT !.pc = "done"]
    /\ ret' = [categoryID |-> frame.categoryID, totals |-> returned(frame),
               again |-> FALSE]
    /\ UNCHANGED <<job, li, chain, categories, lineItems, call, priceImports>>

NextSteps ==
    \/ EnterCalculateJobTotal
    \/ EnterCalculateCategoryTotal
    \/ StepDescendants
    \/ StepRange
    \/ StepChain
    \/ StepReturn

SpecSteps == InitSteps /\ [][NextSteps]_vars

\* a call that runs is scheduled again and again
SpecStepsFair == SpecSteps /\ WF_vars(NextSteps)

\* --------------------------- two calls of the aggregator, side by side
\* Two goroutines run the same function on the same job, categories and line
\* items; frame.calls holds the locals of each, ret.returns what each
\* returned.  A step is one loop iteration of one of them.

\* a variant with result and categoryChains declared at package level: what
\* one call writes there the other one finds
steppedInShared(frames, g, f) ==
    [h \in DOMAIN frames |->
        IF h = g THEN f
        ELSE [frames[h] EXCEPT !.result = f.result,
                               !.categoryChains = f.categoryChains]]

\* result, categoryByID, categoryChains, descendantIDs and the loop variables
\* are locals of the call: a step of call g writes the frame of g
stepped(frames, g, f) == [frames EXCEPT ![g] = f]

Goroutines == 1..2

InitPair ==
    /\ job \in {j \in StoredJobs : j.SurchargeMode = SurchargeModeStacking}
    /\ categories \in StoringForests
    /\ lineItems \in SortedLineItems(Len(categories))
    /\ li = NoLineItem
    /\ chain = <<>>
    /\ call = ""
    /\ ret = NoResult
    /\ frame = NoFrame
    /\ priceImports = NoPriceImports

\* nothing has returned yet
NoReturns == [returns |-> [g \in Goroutines |-> NoResult]]

\* both goroutines call CalculateJobTotal
GoCalculateJobTotal ==
    /\ frame.pc = "idle"
    /\ call' = "CalculateJobTotal"
    /\ frame' = [pc |-> "pair",
                 calls |-> [g \in Goroutines |->
                     Frame("range", 0, <<>>, {}, 1, ZeroJobTotal, <<>>)]]
    /\ ret' = NoReturns
    /\ UNCHANGED <<job, li, chain, categories, lineItems, priceImports>>

\* both goroutines call CalculateCategoryTotal, each for a category
GoCalculateCategoryTotal ==
    \E categoryID \in [Goroutines -> 1..(Len(categories) + 1)] :
        /\ frame.pc = "idle"
        /\ call' = "CalculateCategoryTotal"
        /\ frame' = [pc |-> "pair",
                     calls |-> [g \in Goroutines |->
                         Frame("descendants", categoryID[g],
                               childrenOf(categoryID[g], givenCategories, 1),
                               {}, 1, ZeroCategoryTotal(categoryID[g]), <<>>)]]
        /\ ret' = NoReturns
        /\ UNCHANGED <<job, li, chain, categories, lineItems, priceImports>>

PairStepped(g, f) ==
    /\ frame' = [frame EXCEPT !.calls = stepped(@, g, f)]
    /\ UNCHANGED <<job, li, chain, categories, lineItems, call, ret, priceImports>>

\* for len(queue) > 0 { ... }, in goroutine g
PairStepDescendants(g) ==
    /\ frame.pc = "pair"
    /\ frame.calls[g].pc = "descendants"
    /\ PairStepped(g, descendantsStep(frame.calls[g]))

\* for _, li := range lineItems { ... }, in goroutine g
PairStepRange(g) ==
    /\ frame.pc = "pair"
    /\ frame.calls[g].pc = "range"
    /\ frame.calls[g].i <= Len(lineItems)
    /\ PairStepped(g, rangeStep(frame.calls[g]))

\* for current != nil { ... }, in goroutine g
PairStepChain(g) ==
    /\ frame.pc = "pair"
    /\ frame.calls[g].pc = "chain"
    /\ Len(frame.calls[g].chain) < MaxWalk
    /\ PairStepped(g, chainStep(frame.calls[g]))

\* the loop over lineItems is through: goroutine g returns
PairStepReturn(g) ==
    /\ frame.pc = "pair"
    /\ frame.calls[g].pc = "range"
    /\ frame.calls[g].i > Len(lineItems)
    /\ frame' = [frame EXCEPT !.calls =
                    stepped(@, g, [frame.calls[g] EXCEPT !.pc = "done"])]
    /\ ret' = [ret EXCEPT !.returns[g] =
                  [categoryID |-> frame.calls[g].categoryID,
                   totals |-> returned(frame.calls[g])]]
    /\ UNCHANGED <<job, li, chain, categories, lineItems, call, priceImports>>

NextPair ==
    \/ GoCalculateJobTotal
    \/ GoCalculateCategoryTotal
    \/ \E g \in Goroutines :
           \/ PairStepDescendants(g)
           \/ PairStepRange(g)
           \/ PairStepChain(g)
           \/ PairStepReturn(g)

SpecPair == InitPair /\ [][NextPair]_vars

\* ------------------------------------------------------ input validation

\* a string is a sequence of characters; len counts the bytes of its UTF-8
\* encoding ("é" takes two)
utf8Len(char) == IF char = "é" THEN 2 ELSE 1

\* the builtin len of a string: the number of its bytes
len(text) ==
    Cardinality({byte \in (DOMAIN text) \X (1..2) : byte[2] <= utf8Len(text[byte[1]])})

\* strings.TrimSpace: the text without its leading and trailing white space
TrimSpace(text) ==
    LET inked == {k \in DOMAIN text : text[k] # " "}
    IN  IF inked = {} THEN <<>>
        ELSE SubSeq(text,
                    CHOOSE k \in inked : \A m \in inked : k <= m,
                    CHOOSE k \in inked : \A m \in inked : m <= k)

\* the most bytes a name may have
NameLimit == 255

\* errors = append(errors, ValidationError{...}) under a condition
appendIf(errors, failed, field, message) ==
    IF failed THEN Append(errors, [Field |-> field, Message |-> message]) ELSE errors

\* the rule every Validate has on Name: required, else not too long
nameChecked(errors, name) ==
    IF TrimSpace(name) = <<>>
    THEN Append(errors, [Field |-> "name", Message |-> "Name is required"])
    ELSE appendIf(errors, len(name) > NameLimit, "name",
                  "Name must be less than 255 characters")

\* func (i *JobInput) Validate() []ValidationError
JobInput_Validate(i) ==
    appendIf(nameChecked(<<>>, i.Name),
             /\ i.SurchargeMode # ""
             /\ i.SurchargeMode # SurchargeModeStacking
             /\ i.SurchargeMode # SurchargeModeOverride,
             "surcharge_mode", "Surcharge mode must be 'stacking' or 'override'")

\* func (i *CategoryInput) Validate() []ValidationError
CategoryInput_Validate(i) == nameChecked(<<>>, i.Name)

\* func (i *LineItemInput) Validate() []ValidationError
LineItemInput_Validate(i) ==
    LET named == nameChecked(<<>>, i.Name)
        typed == appendIf(named,
                     i.Type # LineItemTypeMaterial /\ i.Type # LineItemTypeLabor,
                     "type", "Type must be 'material' or 'labor'")
        counted == appendIf(typed, i.Quantity <= 0,
                     "quantity", "Quantity must be greater than 0")
        measured == appendIf(counted, TrimSpace(i.Unit) = <<>>,
                     "unit", "Unit is required")
    IN  appendIf(measured, i.UnitPrice < 0,
                 "unit_price", "Unit price cannot be negative")

\* func (i *SettingsInput) Validate() []ValidationError
SettingsInput_Validate(i) ==
    appendIf(<<>>,
             /\ i.DefaultSurchargeMode # SurchargeModeStacking
             /\ i.DefaultSurchargeMode # SurchargeModeOverride,
             "default_surcharge_mode",
             "Surcharge mode must be 'stacking' or 'override'")

\* the inputs: texts of one character repeated, with lengths at both sides of
\* the limit
Run(char, n) == [k \in 1..n |-> char]

SubmittedNames ==
    {Run("a", 0), Run(" ", 2), Run("a", 1), <<" ", "a", " ">>,
     Run("a", NameLimit), Run("a", NameLimit + 1),
     Run("é", NameLimit \div 2), Run("é", (NameLimit + 1) \div 2)}

SubmittedUnits == {Run("a", 0), Run(" ", 1), <<"e", "a">>}
SubmittedModes == {"", SurchargeModeStacking, SurchargeModeOverride, "invalid"}
SubmittedTypes ==
    {"", LineItemTypeMaterial, LineItemTypeLabor, LineItemTypeEquipment, "invalid"}
SubmittedPercents == {-5, 0, 10}

JobInputs ==
    [Name : SubmittedNames, SurchargePercent : SubmittedPercents,
     SurchargeMode : SubmittedModes]

CategoryInputs == [Name : SubmittedNames, SurchargePercent : Opt(SubmittedPercents)]

LineItemInputs ==
    [Name : SubmittedNames, Type : SubmittedTypes, Quantity : {-1, 0, 2},
     Unit : SubmittedUnits, UnitPrice : {-100, 0, 100},
     SurchargePercent : Opt(SubmittedPercents)]

SettingsInputs ==
    [DefaultSurchargeMode : SubmittedModes, DefaultSurchargePercent : SubmittedPercents]

\* a call of a Validate on a new input: frame.i is the receiver, ret.errors
\* what it returned
Validated(method, i, errors) ==
    /\ frame.pc = "idle"
    /\ call' = method
    /\ frame' = [pc |-> "validated", i |-> i]
    /\ ret' = [errors |-> errors]
    /\ UNCHANGED <<job, li, chain, categories, lineItems, priceImports>>

InitValidate ==
    /\ job \in {j \in StoredJobs : j.SurchargeMode = SurchargeModeStacking}
    /\ categories = <<>>
    /\ lineItems = <<>>
    /\ li = NoLineItem
    /\ chain = <<>>
    /\ call = ""
    /\ ret = NoResult
    /\ frame = NoFrame
    /\ priceImports = NoPriceImports

CallJobInputValidate ==
    \E i \in JobInputs : Validated("JobInput.Validate", i, JobInput_Validate(i))

CallCategoryInputValidate ==
    \E i \in CategoryInputs :
        Validated("CategoryInput.Validate", i, CategoryInput_Validate(i))

CallLineItemInputValidate ==
    \E i \in LineItemInputs :
        Validated("LineItemInput.Validate", i, LineItemInput_Validate(i))

CallSettingsInputValidate ==
    \E i \in SettingsInputs :
        Validated("SettingsInput.Validate", i, SettingsInput_Validate(i))

NextValidate ==
    \/ CallJobInputValidate
    \/ CallCategoryInputValidate
    \/ CallLineItemInputValidate
    \/ CallSettingsInputValidate

SpecValidate == InitValidate /\ [][NextValidate]_vars

\* ------------------------------- the engine on values validation would stop

\* a job as the engine can be handed it: any text for the mode
AnyModes == SubmittedModes \cup {"OVERRIDE"}

AnyModeJobs == [ID : {1}, SurchargePercent : JobPercents, SurchargeMode : AnyModes]

InitAnyMode ==
    /\ job \in AnyModeJobs
    /\ chain \in Chains
    /\ li \in DomainLineItems
    /\ categories = <<>>
    /\ lineItems = <<>>
    /\ call = ""
    /\ ret = NoResult
    /\ frame = NoFrame
    /\ priceImports = NoPriceImports

SpecAnyMode == InitAnyMode /\ [][NextResolver]_vars

\* jobs, categories and line items with percentages and quantities of either
\* sign: one branch of categories, the line items in its leaf
SignedJobs == [ID : {1}, SurchargePercent : {-10, 0, 10}, SurchargeMode : Modes]

SignedBranches ==
    UNION {{[k \in 1..d |->
                [ID |-> k, JobID |-> 1, ParentID |-> NullString(k - 1),
                 SurchargePercent |-> s[k]]] :
            s \in [1..d -> NullFloat64s({-3, 5})]} :
           d \in 1..MaxDepth}

SignedLineItems(d) ==
    UNION {{[k \in 1..m |->
                [ID |-> k, CategoryID |-> d, Type |-> TypeAt(k),
                 Quantity |-> q[k], UnitPrice |-> 100, SurchargePercent |-> s[k]]] :
            q \in [1..m -> {-1, 2}], s \in [1..m -> NullFloat64s({-2, 2})]} :
           m \in 0..MaxItems}

InitSigned ==
    /\ job \in SignedJobs
    /\ categories \in SignedBranches
    /\ lineItems \in SignedLineItems(Len(categories))
    /\ li = NoLineItem
    /\ chain = <<>>
    /\ call = ""
    /\ ret = NoResult
    /\ frame = NoFrame
    /\ priceImports = NoPriceImports

SpecSigned == InitSigned /\ [][CallCalculateJobTotal]_vars

\* lists with an identifier that no category has: the forests of
\* StoringForests, each also with one parent pointer set to the identifier
\* after the last, and line items that may name that identifier
MissingLinkCategories ==
    StoringForests \cup
    UNION {{[forest EXCEPT ![k].ParentID = NullString(Len(forest) + 1)] :
                k \in DOMAIN forest} :
           forest \in StoringForests}

InitMissing ==
    /\ job \in StoredJobs
    /\ categories \in MissingLinkCategories
    /\ lineItems \in SortedLineItems(Len(categories) + 1)
    /\ li = NoLineItem
    /\ chain = <<>>
    /\ call = ""
    /\ ret = NoResult
    /\ frame = NoFrame
    /\ priceImports = NoPriceImports

SpecMissing == InitMissing /\ [][NextEngine]_vars

\* ------------------------------------------------------- the price import
\* The status of an import lives in table price_imports only.  A request
\* and the goroutine started by an upload run side by side; each statement
\* they send to the database is one step.

MaxImports == 2
MaxRows == 1

\* config.AutoApproveThreshold (AUTO_APPROVE_THRESHOLD, default 0.9), with
\* confidence counted in hundredths
AutoApproveThreshold == 90

\* INSERT INTO price_imports (id, filename, status, total_rows): the new
\* identifier (a fresh uuid in the code) is the number of the row
CreatePriceImport(db, status) ==
    [db EXCEPT !.price_imports =
        Append(@, [id |-> Len(@) + 1, status |-> status, matched_rows |-> 0,
                   error_message |-> NullString(0), applied_at |-> Nil])]

\* UPDATE price_imports SET status = ?, matched_rows = ?, error_message = ?
\* WHERE id = ?
UpdatePriceImportStatus(db, id, status, matchedRows, errorMessage) ==
    [db EXCEPT !.price_imports =
        [k \in DOMAIN @ |->
            IF @[k].id = id
            THEN [@[k] EXCEPT !.status = status, !.matched_rows = matchedRows,
                              !.error_message = errorMessage]
            ELSE @[k]]]

\* UPDATE price_imports SET status = 'applied', applied_at = datetime('now')
\* WHERE id = ?
MarkPriceImportApplied(db, id) ==
    [db EXCEPT !.price_imports =
        [k \in DOMAIN @ |->
            IF @[k].id = id
            THEN [@[k] EXCEPT !.status = "applied", !.applied_at = <<TRUE>>]
            ELSE @[k]]]

\* INSERT INTO price_import_matches (...): new_name is not among the
\* columns, the new row has none
CreatePriceImportMatch(db, importID, item, status) ==
    [db EXCEPT !.price_import_matches =
        Append(@, [id |-> Len(@) + 1, import_id |-> importID,
                   source_price |-> item.Price,
                   matched_template_id |-> item.TemplateID,
                   confidence |-> item.Confidence,
                   status |-> status, new_name |-> Nil])]

\* SELECT m.* FROM price_import_matches m JOIN item_templates t
\* ON m.matched_template_id = t.id
\* WHERE m.import_id = ? AND m.status IN ('approved', 'auto_approved')
ListApprovedMatches(db, importID) ==
    SelectSeq(db.price_import_matches,
        LAMBDA m :
            /\ m.import_id = importID
            /\ m.status \in {"approved", "auto_approved"}
            /\ m.matched_template_id # Nil
            /\ \E k \in DOMAIN db.item_templates :
                   db.item_templates[k].id = m.matched_template_id[1])

\* UPDATE item_templates SET default_price = ? WHERE id = ?
UpdateItemTemplatePrice(db, id, defaultPrice) ==
    [db EXCEPT !.item_templates =
        [k \in DOMAIN @ |->
            IF @[k].id = id THEN [@[k] EXCEPT !.default_price = defaultPrice]
            ELSE @[k]]]

\* UPDATE item_templates SET default_price = ?, name = ? WHERE id = ?
UpdateItemTemplatePriceAndName(db, id, defaultPrice, name) ==
    [db EXCEPT !.item_templates =
        [k \in DOMAIN @ |->
            IF @[k].id = id
            THEN [@[k] EXCEPT !.default_price = defaultPrice, !.name = name]
            ELSE @[k]]]

\* updateImportError
updateImportError(db, importID) ==
    UpdatePriceImportStatus(db, importID, "failed", 0, NullString(1))

\* the status column of an import, "" while the row does not exist
StatusOf(db, id) ==
    IF id \in DOMAIN db.price_imports THEN db.price_imports[id].status ELSE ""

\* the rows the matcher may return for a spreadsheet: unmatched, matched
\* below the threshold, matched above it
ExtractedItems ==
    {[TemplateID |-> Nil, Price |-> 250, Confidence |-> 0],
     [TemplateID |-> <<1>>, Price |-> 250, Confidence |-> 50],
     [TemplateID |-> <<1>>, Price |-> 300, Confidence |-> 95]}

ExtractResults ==
    UNION {[1..n -> ExtractedItems] : n \in 0..MaxRows}

\* the catalogue the imports are matched against
StoredTemplates == <<[id |-> 1, default_price |-> 100, name |-> 1]>>

\* a goroutine that has not been started, a request that is not being served
NoGoroutine == [pc |-> "none", items |-> <<>>, total |-> 0, matchedCount |-> 0]

NoRequest == [pc |-> "none", matches |-> <<>>, updatedCount |-> 0]

InitImport ==
    /\ job \in {j \in StoredJobs : j.SurchargeMode = SurchargeModeStacking}
    /\ li = NoLineItem
    /\ chain = <<>>
    /\ categories = <<>>
    /\ lineItems = <<>>
    /\ call = ""
    /\ ret = NoResult
    /\ frame = [pc |-> "serving",
                background |-> [id \in 1..MaxImports |-> NoGoroutine],
                apply |-> [id \in 1..MaxImports |-> NoRequest]]
    /\ priceImports = [NoPriceImports EXCEPT !.item_templates = StoredTemplates]

ImportStep(fn, nextFrame, db) ==
    /\ call' = fn
    /\ frame' = nextFrame
    /\ priceImports' = db
    /\ UNCHANGED <<job, li, chain, categories, lineItems, ret>>

\* UploadPriceFile, for a request that passes its checks: the row is
\* created as "processing" and the goroutine is started
UploadPriceFile ==
    /\ Len(priceImports.price_imports) < MaxImports
    /\ LET importID == Len(priceImports.price_imports) + 1
       IN  ImportStep("UploadPriceFile",
               [frame EXCEPT !.background[importID].pc = "parse"],
               CreatePriceImport(priceImports, "processing"))

\* processImportInBackground: ParseToText, which may fail
BackgroundParse(importID) ==
    /\ frame.background[importID].pc = "parse"
    /\ \/ ImportStep("processImportInBackground",
              [frame EXCEPT !.background[importID].pc = "templates"],
              priceImports)
       \/ ImportStep("processImportInBackground",
              [frame EXCEPT !.background[importID].pc = "returned"],
              updateImportError(priceImports, importID))

\* processImportInBackground: ListItemTemplates, which may fail
BackgroundListItemTemplates(importID) ==
    /\ frame.background[importID].pc = "templates"
    /\ \/ ImportStep("processImportInBackground",
              [frame EXCEPT !.background[importID].pc = "extract"],
              priceImports)
       \/ ImportStep("processImportInBackground",
              [frame EXCEPT !.background[importID].pc = "returned"],
              updateImportError(priceImports, importID))

\* processImportInBackground: ExtractAndMatchItems, which may fail
BackgroundExtract(importID) ==
    /\ frame.background[importID].pc = "extract"
    /\ \/ \E items \in ExtractResults :
              ImportStep("processImportInBackground",
                  [frame EXCEPT !.background[importID] =
                      [pc |-> "store", items |-> items, total |-> Len(items),
                       matchedCount |-> 0]],
                  priceImports)
       \/ ImportStep("processImportInBackground",
              [frame EXCEPT !.background[importID].pc = "returned"],
              updateImportError(priceImports, importID))

\* processImportInBackground: one turn of the loop over the extracted
\* items; a failed INSERT is logged and the loop goes on
BackgroundCreateMatch(importID) ==
    /\ frame.background[importID].pc = "store"
    /\ frame.background[importID].items # <<>>
    /\ LET item == Head(frame.background[importID].items)
           status == IF item.Confidence >= AutoApproveThreshold
                        /\ item.TemplateID # Nil
                     THEN "auto_approved" ELSE "pending"
       IN  \/ ImportStep("processImportInBackground",
                  [frame EXCEPT !.background[importID].items = Tail(@),
                                !.background[importID].matchedCount =
                                    IF item.TemplateID # Nil THEN @ + 1 ELSE @],
                  CreatePriceImportMatch(priceImports, importID, item, status))
           \/ ImportStep("processImportInBackground",
                  [frame EXCEPT !.background[importID].items = Tail(@)],
                  priceImports)

\* processImportInBackground: after the loop the import is set to "ready";
\* a failed UPDATE is logged
BackgroundReady(importID) ==
    /\ frame.background[importID].pc = "store"
    /\ frame.background[importID].items = <<>>
    /\ \/ ImportStep("processImportInBackground",
              [frame EXCEPT !.background[importID].pc = "returned"],
              UpdatePriceImportStatus(priceImports, importID, "ready",
                  frame.background[importID].matchedCount, NullString(0)))
       \/ ImportStep("processImportInBackground",
              [frame EXCEPT !.background[importID].pc = "returned"],
              priceImports)

\* ApplyPriceUpdates: the identifier comes from the path, the approved
\* matches are listed; the status of the import is not read
ApplyListApprovedMatches(importID) ==
    /\ frame.pc = "serving"
    /\ frame.apply[importID].pc = "none"
    /\ ImportStep("ApplyPriceUpdates",
           [frame EXCEPT !.apply[importID] =
               [pc |-> "update",
                matches |-> ListApprovedMatches(priceImports, importID),
                updatedCount |-> 0]],
           priceImports)

\* ApplyPriceUpdates: one turn of the loop over the matches; a failed
\* UPDATE is logged and the loop goes on
ApplyUpdateItemTemplate(importID) ==
    /\ frame.apply[importID].pc = "update"
    /\ frame.apply[importID].matches # <<>>
    /\ LET match == Head(frame.apply[importID].matches)
           counted == [frame EXCEPT !.apply[importID].matches = Tail(@),
                                    !.apply[importID].updatedCount = @ + 1]
           skipped == [frame EXCEPT !.apply[importID].matches = Tail(@)]
       IN  IF match.matched_template_id = Nil
           THEN ImportStep("ApplyPriceUpdates", skipped, priceImports)
           ELSE \/ ImportStep("ApplyPriceUpdates", counted,
                       IF match.new_name # Nil /\ match.new_name[1] # 0
                       THEN UpdateItemTemplatePriceAndName(priceImports,
                                match.matched_template_id[1],
                                match.source_price, match.new_name[1])
                       ELSE UpdateItemTemplatePrice(priceImports,
                                match.matched_template_id[1],
                                match.source_price))
                \/ ImportStep("ApplyPriceUpdates", skipped, priceImports)

\* ApplyPriceUpdates: after the loop the import is marked applied; a failed
\* UPDATE is logged
ApplyMarkPriceImportApplied(importID) ==
    /\ frame.apply[importID].pc = "update"
    /\ frame.apply[importID].matches = <<>>
    /\ \/ ImportStep("ApplyPriceUpdates",
              [frame EXCEPT !.apply[importID] = NoRequest],
              MarkPriceImportApplied(priceImports, importID))
       \/ ImportStep("ApplyPriceUpdates",
              [frame EXCEPT !.apply[importID] = NoRequest],
              priceImports)

NextImport ==
    \/ UploadPriceFile
    \/ \E importID \in 1..MaxImports :
           \/ BackgroundParse(importID)
           \/ BackgroundListItemTemplates(importID)
           \/ BackgroundExtract(importID)
           \/ BackgroundCreateMatch(importID)
           \/ BackgroundReady(importID)
           \/ ApplyListApprovedMatches(importID)
           \/ ApplyUpdateItemTemplate(importID)
           \/ ApplyMarkPriceImportApplied(importID)

SpecImport == InitImport /\ [][NextImport]_vars

\* =========================================================== properties

\* the sum of the values of a function with a finite domain
RECURSIVE SumFn(_)
SumFn(f) ==
    IF DOMAIN f = {} THEN 0
    ELSE LET x == CHOOSE x \in DOMAIN f : TRUE
         IN  f[x] + SumFn([y \in DOMAIN f \ {x} |-> f[y]])

MaxOf(S) == CHOOSE x \in S : \A y \in S : y <= x

\* the positions of the chain that carry a percentage
PresentIn(categoryChain) ==
    {k \in DOMAIN categoryChain : categoryChain[k].SurchargePercent # Nil}

Returned(fn) == call = fn

\* C1: in stacking mode EffectiveSurcharge returns the job's percentage plus
\* every percentage present in the chain plus the item's percentage if it has
\* one; making one present value v absent lowers the result by exactly v.
C1_StackingIsTheSum ==
    (Returned("EffectiveSurcharge") /\ job.SurchargeMode = SurchargeModeStacking) =>
        /\ ret.percent =
               job.SurchargePercent
             + SumFn([k \in PresentIn(chain) |-> chain[k].SurchargePercent[1]])
             + (IF li.SurchargePercent # Nil THEN li.SurchargePercent[1] ELSE 0)
        /\ \A k \in PresentIn(chain) :
               EffectiveSurcharge(li, job, [chain EXCEPT ![k].SurchargePercent = Nil])
                   = ret.percent - chain[k].SurchargePercent[1]
        /\ li.SurchargePercent # Nil =>
               EffectiveSurcharge([li EXCEPT !.SurchargePercent = Nil], job, chain)
                   = ret.percent - li.SurchargePercent[1]

\* job 10, chain 5 / none / 3, item 2: the result is 20
C1_Witness ==
    /\ Returned("EffectiveSurcharge")
    /\ job.SurchargeMode = SurchargeModeStacking
    /\ job.SurchargePercent = 10
    /\ Len(chain) = 3
    /\ chain[1].SurchargePercent = <<5>>
    /\ chain[2].SurchargePercent = Nil
    /\ chain[3].SurchargePercent = <<3>>
    /\ li.SurchargePercent = <<2>>
    /\ ret.percent = 20

\* C2: in override mode EffectiveSurcharge returns the item's percentage if
\* present, else the percentage of the deepest category of the chain that has
\* one, else the job's percentage.
C2_OverrideIsMostSpecific ==
    (Returned("EffectiveSurcharge") /\ job.SurchargeMode = SurchargeModeOverride) =>
        ret.percent =
            IF li.SurchargePercent # Nil THEN li.SurchargePercent[1]
            ELSE IF PresentIn(chain) # {}
                 THEN chain[MaxOf(PresentIn(chain))].SurchargePercent[1]
                 ELSE job.SurchargePercent

\* job 10, chain 5 / 3 / none, item none: the deepest present value, 3, wins
C2_Witness ==
    /\ Returned("EffectiveSurcharge")
    /\ job.SurchargeMode = SurchargeModeOverride
    /\ job.SurchargePercent = 10
    /\ Len(chain) = 3
    /\ chain[1].SurchargePercent = <<5>>
    /\ chain[2].SurchargePercent = <<3>>
    /\ chain[3].SurchargePercent = Nil
    /\ li.SurchargePercent = Nil
    /\ ret.percent = 3

\* C4: for non-negative quantity, unit price and surcharge s, FinalPrice is
\* quantity * unit price * (1 + s/100) exactly (nothing is rounded away), so
\* it is the base price for s = 0 and 0 when quantity or unit price is 0.
C4_FinalPriceIsExact ==
    Returned("FinalPrice") =>
        /\ li.Quantity >= 0 /\ li.UnitPrice >= 0 /\ ret.effectiveSurcharge >= 0
        /\ ret.price * 100 =
               li.Quantity * li.UnitPrice * (100 + ret.effectiveSurcharge)
        /\ ret.effectiveSurcharge = 0 => ret.price = li.Quantity * li.UnitPrice
        /\ (li.Quantity = 0 \/ li.UnitPrice = 0) => ret.price = 0

\* 1 unit at 1.00 with 5 percent costs 1.05
C4_Witness ==
    /\ Returned("FinalPrice")
    /\ li.Quantity = 1
    /\ li.UnitPrice = 100
    /\ ret.effectiveSurcharge = 5
    /\ ret.price = 105

\* ------------------------------------------- what a page should show

\* the row of the category with this identifier
RowOf(id) == categories[CHOOSE k \in DOMAIN categories : categories[k].ID = id]

CategoryIDs == {categories[k].ID : k \in DOMAIN categories}

\* the parent of a category, 0 when it has none (or is unknown)
ParentOf(id) ==
    IF id \in CategoryIDs /\ RowOf(id).ParentID.Valid
    THEN RowOf(id).ParentID.String ELSE 0

RECURSIVE Up(_, _)
Up(id, n) == IF n = 0 THEN id ELSE Up(ParentOf(id), n - 1)

\* a category together with its ancestors; c is below a when a is among them
AncestorsOrSelf(id) == {Up(id, n) : n \in 0..Len(categories)} \ {0}

DepthOf(id) == Cardinality(AncestorsOrSelf(id))

\* identifiers are unique, every parent is a category of the list, no
\* category is its own ancestor, every line item is in a category of the list
WellFormed ==
    /\ \A k, m \in DOMAIN categories : categories[k].ID = categories[m].ID => k = m
    /\ \A k \in DOMAIN categories :
         categories[k].ParentID.Valid => categories[k].ParentID.String \in CategoryIDs
    /\ \A id \in CategoryIDs : Up(id, Len(categories)) = 0
    /\ \A k \in DOMAIN lineItems : lineItems[k].CategoryID \in CategoryIDs

\* the ancestors (or the category itself) that store a percentage
StoringAbove(id) == {a \in AncestorsOrSelf(id) : RowOf(a).SurchargePercent.Valid}

DeepestOf(S) == CHOOSE a \in S : \A b \in S : DepthOf(b) <= DepthOf(a)

\* the percentage a line item row is due, by the rules of the two modes
DuePercent(k) ==
    LET row == lineItems[k]
        storing == StoringAbove(row.CategoryID)
    IN  IF job.SurchargeMode = SurchargeModeOverride
        THEN IF row.SurchargePercent.Valid THEN row.SurchargePercent.Float64
             ELSE IF storing # {} THEN RowOf(DeepestOf(storing)).SurchargePercent.Float64
             ELSE job.SurchargePercent
        ELSE job.SurchargePercent
             + SumFn([a \in storing |-> RowOf(a).SurchargePercent.Float64])
             + (IF row.SurchargePercent.Valid THEN row.SurchargePercent.Float64 ELSE 0)

DueBase(k) == lineItems[k].Quantity * lineItems[k].UnitPrice

\* base * (1 + percent/100); a whole number of cents for the rows of Init
DueFinal(k) == (DueBase(k) * (100 + DuePercent(k))) \div 100

\* the line items in a category or below it
ItemsUnder(id) ==
    {k \in DOMAIN lineItems : id \in AncestorsOrSelf(lineItems[k].CategoryID)}

ItemsDirectlyIn(id) == {k \in DOMAIN lineItems : lineItems[k].CategoryID = id}

ItemsOfType(t) == {k \in DOMAIN lineItems : lineItems[k].Type = t}

SumBase(S) == SumFn([k \in S |-> DueBase(k)])
SumFinal(S) == SumFn([k \in S |-> DueFinal(k)])
SumTotal(totals) == SumFn([k \in DOMAIN totals |-> totals[k].Total])
SumSubtotal(totals) == SumFn([k \in DOMAIN totals |-> totals[k].Subtotal])

\* a line item row that override mode prices at 0 percent because of a stored
\* 0: its own, or that of the closest category above it that stores a value
ZeroWins(k) ==
    LET row == lineItems[k]
        storing == StoringAbove(row.CategoryID)
    IN  \/ row.SurchargePercent = Stored(0)
        \/ /\ ~row.SurchargePercent.Valid
           /\ storing # {}
           /\ RowOf(DeepestOf(storing)).SurchargePercent = Stored(0)

\* a line item row with NULL everywhere above it: nothing but the job counts
NothingStored(k) ==
    /\ ~lineItems[k].SurchargePercent.Valid
    /\ StoringAbove(lineItems[k].CategoryID) = {}

\* C3: a stored 0 is a value, NULL is not.  In override mode a job (at 10
\* percent) whose line items all resolve to a stored 0 -- their own, or that
\* of the closest storing category above them -- has no surcharge at all,
\* whatever the shallower categories store, while line items with NULL in
\* every column above them get the job's 10 percent.
C3_StoredZeroIsPresent ==
    (Returned("GetJob") /\ job.SurchargeMode = SurchargeModeOverride) =>
        /\ (\A k \in DOMAIN lineItems : ZeroWins(k)) =>
               /\ ret.totals.GrandTotal = ret.totals.Subtotal
               /\ ret.totals.SurchargeTotal = 0
        /\ (\A k \in DOMAIN lineItems : NothingStored(k)) =>
               ret.totals.GrandTotal * 100
                   = ret.totals.Subtotal * (100 + job.SurchargePercent)

\* root stores 5, the middle category 0, the leaf NULL; one line item stores
\* 0, the other NULL: both are priced at 0 percent
C3_Witness ==
    /\ Returned("GetJob")
    /\ job.SurchargeMode = SurchargeModeOverride
    /\ job.SurchargePercent = 10
    /\ Len(categories) = 3
    /\ categories[1].SurchargePercent = Stored(5)
    /\ categories[2].SurchargePercent = Stored(0)
    /\ categories[3].SurchargePercent = Null
    /\ Len(lineItems) = 2
    /\ lineItems[1].SurchargePercent = Stored(0)
    /\ lineItems[2].SurchargePercent = Null
    /\ ret.totals.Subtotal > 0
    /\ ret.totals.GrandTotal = ret.totals.Subtotal

\* C5: for a well-formed tree CalculateJobTotal's Subtotal is the sum of
\* quantity * unit price over all line items and its GrandTotal the sum of
\* their final prices, each at the percentage its own category's root-first
\* chain of ancestors gives it.
C5_JobTotalSumsAllItems ==
    (Returned("GetJob") /\ WellFormed) =>
        /\ ret.totals.Subtotal = SumBase(DOMAIN lineItems)
        /\ ret.totals.GrandTotal = SumFinal(DOMAIN lineItems)

\* stacking, job 10, three nested categories storing 1, 2 and 4, one line
\* item (1 unit at 1.00) in the third: priced at 17 percent
C5_Witness ==
    /\ Returned("GetJob")
    /\ job.SurchargeMode = SurchargeModeStacking
    /\ Len(categories) = 3
    /\ ParentOf(2) = 1 /\ ParentOf(3) = 2
    /\ \A k \in 1..3 : categories[k].SurchargePercent.Valid
    /\ Len(lineItems) = 1
    /\ lineItems[1].CategoryID = 3
    /\ ret.totals.Subtotal = 100
    /\ ret.totals.GrandTotal = 117

\* C6: SurchargeTotal is GrandTotal - Subtotal in every JobTotal and
\* Total - Subtotal in every CategoryTotal.
C6_SurchargeTotalIsTheDifference ==
    /\ Returned("GetJob") =>
         /\ ret.totals.SurchargeTotal = ret.totals.GrandTotal - ret.totals.Subtotal
         /\ \A k \in DOMAIN ret.categoriesWithTotals :
              ret.categoriesWithTotals[k].SurchargeTotal =
                  ret.categoriesWithTotals[k].Total - ret.categoriesWithTotals[k].Subtotal
    /\ Returned("GetCategory") =>
         /\ ret.catTotal.SurchargeTotal = ret.catTotal.Total - ret.catTotal.Subtotal
         /\ \A k \in DOMAIN ret.subcatsWithTotals :
              ret.subcatsWithTotals[k].SurchargeTotal =
                  ret.subcatsWithTotals[k].Total - ret.subcatsWithTotals[k].Subtotal

\* two line items in categories that give them different percentages
C6_Witness ==
    /\ Returned("GetJob")
    /\ Len(lineItems) = 2
    /\ DuePercent(1) # DuePercent(2)
    /\ ret.totals.SurchargeTotal > 0
    /\ ret.totals.SurchargeTotal = ret.totals.GrandTotal - ret.totals.Subtotal

\* C7: every line item's final price goes into the subtotal of its type and
\* no other, so the three type subtotals add up to GrandTotal.
C7_TypeSubtotalsPartitionGrandTotal ==
    Returned("GetJob") =>
        /\ ret.totals.MaterialSubtotal = SumFinal(ItemsOfType(LineItemTypeMaterial))
        /\ ret.totals.LaborSubtotal = SumFinal(ItemsOfType(LineItemTypeLabor))
        /\ ret.totals.EquipmentSubtotal = SumFinal(ItemsOfType(LineItemTypeEquipment))
        /\ ret.totals.MaterialSubtotal + ret.totals.LaborSubtotal
             + ret.totals.EquipmentSubtotal = ret.totals.GrandTotal

\* a labor and an equipment line item, nothing else
C7_Witness ==
    /\ Returned("GetJob")
    /\ Len(lineItems) = 2
    /\ lineItems[1].Type = LineItemTypeLabor
    /\ lineItems[2].Type = LineItemTypeEquipment
    /\ ret.totals.MaterialSubtotal = 0
    /\ ret.totals.LaborSubtotal > 0
    /\ ret.totals.EquipmentSubtotal > 0
    /\ ret.totals.GrandTotal = ret.totals.LaborSubtotal + ret.totals.EquipmentSubtotal

\* C8: for a well-formed tree CalculateCategoryTotal(c) sums exactly the line
\* items whose category is c or below c at any depth, each at the percentage
\* of its own full chain (the ancestors above c included).
C8_CategoryTotalSumsTheSubtree ==
    (Returned("GetCategory") /\ WellFormed) =>
        /\ ret.catTotal.CategoryID = ret.categoryID
        /\ ret.catTotal.Subtotal = SumBase(ItemsUnder(ret.categoryID))
        /\ ret.catTotal.Total = SumFinal(ItemsUnder(ret.categoryID))

\* categories 1 > 2 > 3, the page of 2, one line item in 1 and one in 3: only
\* the one in 3 counts, and at a percentage that includes what 1 stores
C8_Witness ==
    /\ Returned("GetCategory")
    /\ job.SurchargeMode = SurchargeModeStacking
    /\ ret.categoryID = 2
    /\ Len(categories) = 3
    /\ ParentOf(2) = 1 /\ ParentOf(3) = 2
    /\ \A k \in 1..3 : categories[k].SurchargePercent.Valid
    /\ Len(lineItems) = 2
    /\ lineItems[1].CategoryID = 1
    /\ lineItems[2].CategoryID = 3
    /\ ret.catTotal.Subtotal = 200
    /\ ret.catTotal.Total = 234

\* C9: for a well-formed job the totals of the top-level categories add up
\* to the job's: Subtotal to Subtotal and Total to GrandTotal (for a single
\* top-level category without subcategories the two are equal).
C9_TopLevelTotalsAddUpToJobTotal ==
    (Returned("GetJob") /\ WellFormed) =>
        /\ SumSubtotal(ret.categoriesWithTotals) = ret.totals.Subtotal
        /\ SumTotal(ret.categoriesWithTotals) = ret.totals.GrandTotal
        /\ Len(categories) = 1 =>
             /\ Len(ret.categoriesWithTotals) = 1
             /\ ret.categoriesWithTotals[1].Subtotal = ret.totals.Subtotal
             /\ ret.categoriesWithTotals[1].Total = ret.totals.GrandTotal

\* two top-level categories, one of them with a subcategory, line items in
\* the subcategory and in the other top-level category
C9_Witness ==
    /\ Returned("GetJob")
    /\ Len(categories) = 3
    /\ ParentOf(1) = 0 /\ ParentOf(2) = 0 /\ ParentOf(3) = 1
    /\ Len(lineItems) = 2
    /\ lineItems[1].CategoryID = 3
    /\ lineItems[2].CategoryID = 2
    /\ Len(ret.categoriesWithTotals) = 2
    /\ ret.categoriesWithTotals[1].Total > 0
    /\ ret.categoriesWithTotals[2].Total > 0
    /\ ret.categoriesWithTotals[1].Total + ret.categoriesWithTotals[2].Total
         = ret.totals.GrandTotal

\* C10: for a well-formed tree the total of a category is the sum of the
\* final prices of the line items directly in it plus the totals of its
\* direct subcategories, and likewise for Subtotal.
C10_CategoryTotalIsItemsPlusChildren ==
    (Returned("GetCategory") /\ WellFormed) =>
        /\ ret.catTotal.Total =
               SumFinal(ItemsDirectlyIn(ret.categoryID)) + SumTotal(ret.subcatsWithTotals)
        /\ ret.catTotal.Subtotal =
               SumBase(ItemsDirectlyIn(ret.categoryID)) + SumSubtotal(ret.subcatsWithTotals)

\* category 1 with the subcategories 2 and 3, a line item in 1 and one in 3
C10_Witness ==
    /\ Returned("GetCategory")
    /\ ret.categoryID = 1
    /\ Len(categories) = 3
    /\ ParentOf(2) = 1 /\ ParentOf(3) = 1
    /\ Len(lineItems) = 2
    /\ lineItems[1].CategoryID = 1
    /\ lineItems[2].CategoryID = 3
    /\ Len(ret.subcatsWithTotals) = 2
    /\ ret.subcatsWithTotals[1].Total = 0
    /\ ret.subcatsWithTotals[2].Total > 0
    /\ ret.catTotal.Total > ret.subcatsWithTotals[2].Total

\* ------------------------------------------- what the aggregator should do

\* the permutations of 1..n, and a list rearranged by one
Orderings(n) ==
    {f \in [1..n -> 1..n] : \A k \in 1..n : \A m \in 1..n : f[k] = f[m] => k = m}

Rearranged(list, f) == [k \in DOMAIN list |-> list[f[k]]]

\* the engine's result for the call that returned last, on other lists
ResultOn(j, cats, items) ==
    IF call = "CalculateJobTotal"
    THEN CalculateJobTotal(toDomainJob(j), toDomainCategories(cats),
                           toDomainLineItems(items))
    ELSE CalculateCategoryTotal(ret.categoryID, toDomainJob(j),
                                toDomainCategories(cats), toDomainLineItems(items))

EngineReturned == call \in {"CalculateJobTotal", "CalculateCategoryTotal"}

C12_OrderDoesNotMatter ==
    (EngineReturned /\ WellFormed) =>
        /\ \A f \in Orderings(Len(categories)) :
               ResultOn(job, Rearranged(categories, f), lineItems) = ret.totals
        /\ \A g \in Orderings(Len(lineItems)) :
               ResultOn(job, categories, Rearranged(lineItems, g)) = ret.totals

\* the total of category 1 with 1 > 2 > 3 and a line item in 3, which a
\* list in the order 3, 2, 1 has to yield as well
C12_Witness ==
    /\ Returned("CalculateCategoryTotal")
    /\ ret.categoryID = 1
    /\ Len(categories) = 3
    /\ ParentOf(2) = 1 /\ ParentOf(3) = 2
    /\ Len(lineItems) = 2
    /\ lineItems[1].CategoryID = 2
    /\ lineItems[2].CategoryID = 3
    /\ ret.totals.Subtotal = 300
    /\ ret.totals.Total > 300

\* C13: without line items CalculateJobTotal returns a JobTotal whose six
\* fields are 0 and CalculateCategoryTotal returns 0 in Subtotal,
\* SurchargeTotal and Total beside the CategoryID it was asked for, whatever
\* the categories are and whatever the job's percentage and mode.
C13_NoLineItemsGiveZeroTotals ==
    (EngineReturned /\ lineItems = <<>>) =>
        \A j \in Jobs :
            ResultOn(j, categories, lineItems) =
                IF call = "CalculateJobTotal"
                THEN [Subtotal |-> 0, SurchargeTotal |-> 0, GrandTotal |-> 0,
                      MaterialSubtotal |-> 0, LaborSubtotal |-> 0,
                      EquipmentSubtotal |-> 0]
                ELSE [CategoryID |-> ret.categoryID, Subtotal |-> 0,
                      SurchargeTotal |-> 0, Total |-> 0]

\* three categories that store percentages, a job at 10 percent, no line
\* item: the total of category 2 is 0
C13_Witness ==
    /\ Returned("CalculateCategoryTotal")
    /\ lineItems = <<>>
    /\ Len(categories) = 3
    /\ job.SurchargePercent = 10
    /\ ret.categoryID = 2
    /\ ret.totals = [CategoryID |-> 2, Subtotal |-> 0, SurchargeTotal |-> 0,
                     Total |-> 0]

\* no category and no line item at all: every field of the JobTotal is 0
C13_WitnessEmptyJob ==
    /\ Returned("CalculateJobTotal")
    /\ categories = <<>>
    /\ lineItems = <<>>
    /\ ret.totals.GrandTotal = 0

\* ----------------------------------------- what the stored rows should be

\* C14: after any sequence of category-creation requests every stored
\* category has nesting depth at most 3, a top-level category counting as
\* depth 1.
C14_StoredDepthAtMostThree ==
    \A id \in CategoryIDs : DepthOf(id) <= 3

\* C15: every category with a parent_id has a parent that is stored and
\* belongs to the same job as the category.
C15_ParentIsOfTheSameJob ==
    \A k \in DOMAIN categories :
        categories[k].ParentID.Valid =>
            /\ categories[k].ParentID.String \in CategoryIDs
            /\ RowOf(categories[k].ParentID.String).JobID = categories[k].JobID

\* C16: the parent pointers of the stored categories are acyclic: no
\* category is its own ancestor, since a parent_id names a category that was
\* stored before the category itself and is never written again.
C16_StoredParentsAreAcyclic ==
    /\ \A id \in CategoryIDs : \A n \in 1..Len(categories) : Up(id, n) # id
    /\ \A id \in CategoryIDs : Up(id, Len(categories)) = 0
    /\ \A k \in DOMAIN categories :
         categories[k].ParentID.Valid => categories[k].ParentID.String \in CategoryIDs

\* four stored categories, two of them nested below a third, one of them
\* holding a percentage an update wrote
C16_Witness ==
    /\ Len(categories) = 4
    /\ ParentOf(2) = 1 /\ ParentOf(3) = 2 /\ ParentOf(4) = 0
    /\ categories[2].SurchargePercent = Stored(5)
    /\ DepthOf(3) = 3

\* C17: after any sequence of line-item create and update requests every
\* stored line item has a quantity > 0 and a unit price >= 0.
C17_StoredLineItemsAreValid ==
    \A k \in DOMAIN lineItems :
        /\ lineItems[k].Quantity > 0
        /\ lineItems[k].UnitPrice >= 0

\* ------------------------------------------- what a running call should do

\* no category of the list is its own ancestor
AcyclicGiven ==
    \A id \in CategoryIDs : \A n \in 1..Len(categories) : Up(id, n) # id

\* a category that is its own ancestor, and one whose walk upwards meets such
OnCycle(id) == id \in CategoryIDs /\ \E n \in 1..Len(categories) : Up(id, n) = id
LeadsIntoCycle(id) == \E n \in 0..Len(categories) : OnCycle(Up(id, n))

\* the categories found by going from a category to its children, repeatedly
Below(id) == {c \in CategoryIDs : \E n \in 1..Len(categories) : Up(c, n) = id}

\* the first line item whose category leads into a cycle
ItemsIntoCycle == {k \in DOMAIN lineItems : LeadsIntoCycle(lineItems[k].CategoryID)}
FirstIntoCycle == CHOOSE k \in ItemsIntoCycle : \A m \in ItemsIntoCycle : k <= m

\* C18: on a category list without a parent cycle (a parent that is not in the
\* list included) every call of CalculateJobTotal and CalculateCategoryTotal
\* comes to its return and returns a totals value.
C18_AcyclicCallsReturn ==
    AcyclicGiven => <>(frame.pc = "done" /\ ret.totals = ResultOn(job, categories, lineItems))

C18_Witness ==
    /\ frame.pc = "done"
    /\ call = "CalculateCategoryTotal"
    /\ AcyclicGiven
    /\ Len(categories) = MaxCats
    /\ \E id \in CategoryIDs : DepthOf(id) = 3
    /\ \E k \in DOMAIN categories : categories[k].ParentID.String \notin CategoryIDs \cup {0}
    /\ Len(lineItems) = MaxItems
    /\ ret.totals.Total > 0

\* C19: with a parent cycle in the list, a call of CalculateJobTotal does not
\* get past the first line item whose category leads into the cycle, and a
\* call of CalculateCategoryTotal whose target has the cycle below it does not
\* leave the search for descendants; neither returns anything.
C19_CyclesAreNeverLeft ==
    /\ (call = "CalculateJobTotal" /\ ItemsIntoCycle # {})
         => /\ frame.pc \in {"range", "chain"}
            /\ frame.i <= FirstIntoCycle
            /\ ret = NoResult
    /\ (call = "CalculateCategoryTotal"
          /\ \E c \in Below(frame.categoryID) : OnCycle(c))
         => /\ frame.pc = "descendants"
            /\ ret = NoResult

\* the walk upwards from a category that is not on the cycle itself has gone
\* round the cycle up to the longest chain followed
C19_Witness ==
    /\ call = "CalculateJobTotal"
    /\ frame.pc = "chain"
    /\ Len(frame.chain) = MaxWalk
    /\ frame.current # Nil
    /\ ~OnCycle(lineItems[frame.i].CategoryID)
    /\ frame.i = 2

\* the search for descendants has been round a cycle of two categories, with
\* no line item in the job
C19_WitnessDescendants ==
    /\ call = "CalculateCategoryTotal"
    /\ lineItems = <<>>
    /\ ParentOf(frame.categoryID) # frame.categoryID
    /\ frame.descendantIDs = {frame.categoryID, ParentOf(frame.categoryID)}
    /\ frame.queue # <<>>

\* a chain is root first and ends in the category with identifier id
RootFirst(categoryChain, id) ==
    /\ Len(categoryChain) = DepthOf(id)
    /\ categoryChain[1].ParentID = Nil
    /\ \A k \in 2..Len(categoryChain) :
         categoryChain[k].ParentID = <<categoryChain[k - 1].ID>>
    /\ categoryChain[Len(categoryChain)].ID = id
    /\ \A k \in DOMAIN categoryChain :
         categoryChain[k] = toDomainCategory(RowOf(categoryChain[k].ID))

\* C20: in a well-formed tree the chain a line item is priced with, built for
\* it or taken from the cache of the call, is the root-first chain of its
\* category, and so is every chain the cache holds.
C20_ChainsAreRootFirst ==
    WellFormed =>
        /\ li # NoLineItem => RootFirst(chain, li.CategoryID)
        /\ frame.pc # "idle" =>
             \A id \in DOMAIN frame.categoryChains :
                 RootFirst(frame.categoryChains[id], id)

\* the second line item of a category three deep got its chain from the cache
C20_Witness ==
    /\ WellFormed
    /\ frame.pc = "range"
    /\ frame.exists
    /\ frame.i = 3
    /\ li = givenLineItems[2]
    /\ Len(chain) = 3
    /\ lineItems[1].CategoryID = lineItems[2].CategoryID

\* ------------------------------------------ what a Validate should report

\* the fields the returned errors name
ReportedFields == {ret.errors[k].Field : k \in DOMAIN ret.errors}

Validating(method) == call = method

\* a text is blank when it has nothing but white space
Blank(text) == \A k \in DOMAIN text : text[k] = " "

\* C21: LineItemInput.Validate reports an error on field type exactly for a
\* type other than material, labor and equipment.
C21_ThreeTypesAreAccepted ==
    Validating("LineItemInput.Validate") =>
        ("type" \in ReportedFields
            <=> frame.i.Type \notin {LineItemTypeMaterial, LineItemTypeLabor,
                                     LineItemTypeEquipment})

\* the rules of a line item, field by field: TRUE when the field breaks one
LineItemRuleBroken(field) ==
    IF field = "name"
    THEN Blank(frame.i.Name) \/ Len(frame.i.Name) > NameLimit
    ELSE IF field = "type"
    THEN frame.i.Type \notin {LineItemTypeMaterial, LineItemTypeLabor,
                              LineItemTypeEquipment}
    ELSE IF field = "quantity" THEN frame.i.Quantity <= 0
    ELSE IF field = "unit" THEN Blank(frame.i.Unit)
    ELSE IF field = "unit_price" THEN frame.i.UnitPrice < 0
    ELSE IF field = "surcharge_percent"
    THEN frame.i.SurchargePercent # Nil /\ frame.i.SurchargePercent[1] < 0
    ELSE FALSE

LineItemFields == {"name", "type", "quantity", "unit", "unit_price", "surcharge_percent"}

\* C22: LineItemInput.Validate reports quantity exactly when Quantity <= 0,
\* unit_price exactly when UnitPrice < 0, unit exactly when the unit is blank,
\* name exactly when the name is blank or longer than 255 characters, and
\* nothing exactly when no rule is broken.
C22_LineItemRulesAreExact ==
    Validating("LineItemInput.Validate") =>
        /\ \A field \in {"name", "quantity", "unit", "unit_price"} :
             field \in ReportedFields <=> LineItemRuleBroken(field)
        /\ ret.errors = <<>>
             <=> \A field \in {"name", "type", "quantity", "unit", "unit_price"} :
                    ~LineItemRuleBroken(field)

\* the rules of a job
JobRuleBroken(field) ==
    IF field = "name"
    THEN Blank(frame.i.Name) \/ Len(frame.i.Name) > NameLimit
    ELSE IF field = "surcharge_mode"
    THEN frame.i.SurchargeMode \notin {SurchargeModeStacking, SurchargeModeOverride}
    ELSE IF field = "surcharge_percent" THEN frame.i.SurchargePercent < 0
    ELSE FALSE

JobFields == {"name", "surcharge_mode", "surcharge_percent"}

\* C23: one call of Validate reports every field that breaks a rule and no
\* field that breaks none.
C23_EveryProblemIsReported ==
    /\ Validating("LineItemInput.Validate") =>
         \A field \in LineItemFields :
             field \in ReportedFields <=> LineItemRuleBroken(field)
    /\ Validating("JobInput.Validate") =>
         \A field \in JobFields :
             field \in ReportedFields <=> JobRuleBroken(field)

\* C24: JobInput.Validate and SettingsInput.Validate report the surcharge mode
\* exactly when it is neither stacking nor override, the empty mode included.
C24_OnlyTheTwoModesPass ==
    /\ Validating("JobInput.Validate") =>
         ("surcharge_mode" \in ReportedFields
            <=> frame.i.SurchargeMode \notin {SurchargeModeStacking,
                                              SurchargeModeOverride})
    /\ Validating("SettingsInput.Validate") =>
         ("default_surcharge_mode" \in ReportedFields
            <=> frame.i.DefaultSurchargeMode \notin {SurchargeModeStacking,
                                                     SurchargeModeOverride})

\* C25: JobInput.Validate, CategoryInput.Validate and LineItemInput.Validate
\* report an error when the surcharge percentage is present and below 0.
C25_NegativePercentagesAreRejected ==
    /\ (Validating("JobInput.Validate") /\ frame.i.SurchargePercent < 0)
         => "surcharge_percent" \in ReportedFields
    /\ ((Validating("CategoryInput.Validate") \/ Validating("LineItemInput.Validate"))
          /\ frame.i.SurchargePercent # Nil /\ frame.i.SurchargePercent[1] < 0)
         => "surcharge_percent" \in ReportedFields

\* ------------------------------ what the engine does outside validated values

\* C27: EffectiveSurcharge resolves by override exactly when the job's mode is
\* 'override'; for every other mode, the empty one and unknown ones included,
\* it returns the stacking sum.
C27_OnlyOverrideOverrides ==
    Returned("EffectiveSurcharge") =>
        ret.percent =
            IF job.SurchargeMode = SurchargeModeOverride
            THEN IF li.SurchargePercent # Nil THEN li.SurchargePercent[1]
                 ELSE IF PresentIn(chain) # {}
                      THEN chain[MaxOf(PresentIn(chain))].SurchargePercent[1]
                      ELSE job.SurchargePercent
            ELSE job.SurchargePercent
               + SumFn([k \in PresentIn(chain) |-> chain[k].SurchargePercent[1]])
               + (IF li.SurchargePercent # Nil THEN li.SurchargePercent[1] ELSE 0)

\* a job without mode, job 10, chain 5 / none / 3, item 2: the sum, 20
C27_Witness ==
    /\ Returned("EffectiveSurcharge")
    /\ job.SurchargeMode = ""
    /\ job.SurchargePercent = 10
    /\ Len(chain) = 3
    /\ chain[1].SurchargePercent = <<5>>
    /\ chain[2].SurchargePercent = Nil
    /\ chain[3].SurchargePercent = <<3>>
    /\ li.SurchargePercent = <<2>>
    /\ ret.percent = 20

\* an unknown mode, and 'override' in capitals, get the sum as well
C27_WitnessUnknown ==
    /\ Returned("EffectiveSurcharge")
    /\ job.SurchargeMode = "OVERRIDE"
    /\ job.SurchargePercent = 10
    /\ Len(chain) = 1
    /\ chain[1].SurchargePercent = <<3>>
    /\ li.SurchargePercent = Nil
    /\ ret.percent = 13

\* no percentage, quantity or unit price of the stored rows is below 0
NonNegativeGiven ==
    /\ job.SurchargePercent >= 0
    /\ \A k \in DOMAIN categories :
         categories[k].SurchargePercent.Valid => categories[k].SurchargePercent.Float64 >= 0
    /\ \A k \in DOMAIN lineItems :
         /\ lineItems[k].SurchargePercent.Valid => lineItems[k].SurchargePercent.Float64 >= 0
         /\ lineItems[k].Quantity >= 0
         /\ lineItems[k].UnitPrice >= 0

InMode(mode) == toDomainJob([job EXCEPT !.SurchargeMode = mode])

\* the chain of the k-th line item, as the aggregator builds it
ChainOfItem(k) ==
    buildCategoryChain(lineItems[k].CategoryID,
                       makeCategoryByID(toDomainCategories(categories)))

PresentAbove(id) == AncestorsOrSelf(id) \cap CategoryIDs

\* the percentage due to the k-th line item when identifiers may be missing
\* (every category of these lists stores a percentage, no line item does)
DuePercentAmongPresent(k) ==
    IF job.SurchargeMode = SurchargeModeOverride
    THEN IF lineItems[k].CategoryID \in CategoryIDs
         THEN RowOf(lineItems[k].CategoryID).SurchargePercent.Float64
         ELSE job.SurchargePercent
    ELSE job.SurchargePercent
           + SumFn([a \in PresentAbove(lineItems[k].CategoryID) |->
                       RowOf(a).SurchargePercent.Float64])

DueFinalAmongPresent(k) == (DueBase(k) * (100 + DuePercentAmongPresent(k))) \div 100

\* the line items CalculateCategoryTotal counts for a target identifier: one
\* whose category is missing counts for the identifier it names only, one
\* whose category is in the list for that category and what is above it
CountedFor(target) ==
    {k \in DOMAIN lineItems :
        IF lineItems[k].CategoryID \in CategoryIDs
        THEN target \in AncestorsOrSelf(lineItems[k].CategoryID)
        ELSE target = lineItems[k].CategoryID}

SomeParentMissing ==
    \E k \in DOMAIN categories :
        categories[k].ParentID.Valid /\ categories[k].ParentID.String \notin CategoryIDs

\* C29: an identifier that is not in the category list ends the walk without
\* error: a line item of a missing category is priced with the job's and its
\* own values only and still counted in the job's Subtotal and GrandTotal, a
\* category with a missing parent is the root of its chain, and
\* CalculateCategoryTotal counts a line item of a missing category for the
\* identifier it names only.
C29_MissingIdentifiersEndTheWalk ==
    /\ Returned("CalculateJobTotal") =>
         /\ ret.totals.Subtotal = SumFn([k \in DOMAIN lineItems |-> DueBase(k)])
         /\ ret.totals.GrandTotal =
                SumFn([k \in DOMAIN lineItems |-> DueFinalAmongPresent(k)])
    /\ Returned("CalculateCategoryTotal") =>
         /\ ret.totals.Subtotal =
                SumFn([k \in CountedFor(ret.categoryID) |-> DueBase(k)])
         /\ ret.totals.Total =
                SumFn([k \in CountedFor(ret.categoryID) |-> DueFinalAmongPresent(k)])

\* stacking, job 10: category 1 (1 percent) has a missing parent, category 2
\* (2 percent) is its child; the first line item is in category 2 and pays
\* 13 percent, the second names the missing identifier and pays 10
C29_Witness ==
    /\ Returned("CalculateJobTotal")
    /\ job.SurchargeMode = SurchargeModeStacking
    /\ Len(categories) = 2
    /\ categories[1].ParentID = NullString(3)
    /\ categories[2].ParentID = NullString(1)
    /\ Len(lineItems) = 2
    /\ lineItems[1].CategoryID = 2
    /\ lineItems[2].CategoryID = 3
    /\ ret.totals.Subtotal = 300
    /\ ret.totals.GrandTotal = 113 + 220

\* the total of the missing identifier itself counts the line item that
\* names it
C29_WitnessCategoryTotal ==
    /\ Returned("CalculateCategoryTotal")
    /\ ret.categoryID = Len(categories) + 1
    /\ ~SomeParentMissing
    /\ \E k \in DOMAIN lineItems : lineItems[k].CategoryID = ret.categoryID
    /\ \E k \in DOMAIN lineItems : lineItems[k].CategoryID # ret.categoryID
    /\ ret.totals.Subtotal = 200

\* ------------------------------------------ what a price import should do

\* how far an import has come: no row, processing, ready or failed, applied
StageOf(status) ==
    CASE status = "" -> 0
      [] status = "processing" -> 1
      [] status \in {"ready", "failed"} -> 2
      [] status = "applied" -> 3

\* C30: the status of a price import only moves forward (processing, then
\* ready or failed, then applied); once ApplyPriceUpdates has marked an import
\* applied, no step of a request or of the goroutine changes its status.
C30_StatusOnlyMovesForward ==
    [][\A importID \in 1..MaxImports :
          LET before == StatusOf(priceImports, importID)
              after == StatusOf(priceImports', importID)
          IN  /\ StageOf(before) <= StageOf(after)
              /\ StageOf(before) = StageOf(after) => before = after
              /\ before = "applied" => after = "applied"]_vars

\* ------------------------------------ what two calls side by side should do

\* what the call of goroutine g returns when nothing runs beside it
AloneResult(g) ==
    IF call = "CalculateJobTotal"
    THEN CalculateJobTotal(givenJob, givenCategories, givenLineItems)
    ELSE CalculateCategoryTotal(frame.calls[g].categoryID, givenJob,
                                givenCategories, givenLineItems)

PairRunning == frame.pc = "pair"

\* C26: two calls of CalculateJobTotal, or of CalculateCategoryTotal, that
\* run side by side on the same job, categories and line items each return,
\* however their steps interleave, what they return when run alone.
C26_CallsSideBySideReturnAsAlone ==
    PairRunning =>
        \A g \in Goroutines :
            frame.calls[g].pc = "done" =>
                /\ ret.returns[g].totals = AloneResult(g)
                /\ ret.returns[g].categoryID = frame.calls[g].categoryID

\* the first goroutine has returned the total of category 1 (1 > 2, a line
\* item in each) while the second, asked for category 2, is in the middle of
\* its loop with one chain in its cache
C26_Witness ==
    /\ PairRunning
    /\ call = "CalculateCategoryTotal"
    /\ Len(categories) >= 2
    /\ categories[2].ParentID = NullString(1)
    /\ Len(lineItems) = 2
    /\ lineItems[1].CategoryID = 1
    /\ lineItems[2].CategoryID = 2
    /\ frame.calls[1].pc = "done"
    /\ frame.calls[1].categoryID = 1
    /\ ret.returns[1].totals.Subtotal = 300
    /\ frame.calls[2].pc = "chain"
    /\ frame.calls[2].categoryID = 2
    /\ frame.calls[2].i = 2

\* both goroutines have returned the job's totals
C26_WitnessJobTotal ==
    /\ PairRunning
    /\ call = "CalculateJobTotal"
    /\ Len(lineItems) = 2
    /\ \A g \in Goroutines :
           /\ frame.calls[g].pc = "done"
           /\ ret.returns[g].totals.Subtotal = 300
           /\ ret.returns[g].totals.GrandTotal > 300

====
